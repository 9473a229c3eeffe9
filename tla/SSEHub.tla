------------------------------- MODULE SSEHub -------------------------------
(***************************************************************************)
(* The hub that streams logs to browsers (services/server_sent_events/     *)
(* LogsSSE.go; AlertSSE.go is the same code for alerts) and the handlers   *)
(* that open streams on it (resthandlers/logs_handler.go, StreamLogs).     *)
(*                                                                         *)
(* A client is an object of the hub, known by the user's name; every       *)
(* browser tab of that user registers under the same name.  The goroutine  *)
(* that fans a project's logs out, its project channel and its shutdown    *)
(* channel are named by the client whose registration created them.        *)
(*                                                                         *)
(* Time is abstract: a client stops being "recent" (seen less than five    *)
(* seconds ago) at any moment, and a ten-second cleanup timer runs out at  *)
(* any moment after it was started.                                        *)
(*                                                                         *)
(* An operator whose comment says "Changed" is a deliberately wrong        *)
(* version of the one after it.  Nothing uses it: it is there to show      *)
(* that a property notices the mistake it describes.                       *)
(***************************************************************************)
EXTENDS Integers, Sequences, Functions

CONSTANTS
  User,             \* client IDs: names of users
  Tab,              \* browser tabs, each with at most one stream
  Owner,            \* the user of each tab
  Project,
  None,
  Capacity,         \* of a client's channel
  ProjectCapacity,  \* of a project's channel
  MaxClients,       \* bound: clients ever created
  MaxTimers,        \* bound: cleanup timers of one user at a time
  MaxSent           \* bound: logs ever broadcast

Client == 1 .. MaxClients
Entry  == Project \X (1 .. MaxSent)

ASSUME ConstantsAssumption ==
  /\ Owner \in [Tab -> User]
  /\ None \notin Client
  /\ None \notin Project
  /\ Capacity \in Nat /\ ProjectCapacity \in Nat
  /\ MaxClients \in Nat /\ MaxTimers \in Nat /\ MaxSent \in Nat

VARIABLES
  hub,        \* the maps of SSELogService, and the channels that were closed
  project,    \* Client.Project
  connected,  \* Client.Connected
  recent,     \* Client.LastSeen is less than five seconds ago
  queue,      \* Client.Channel
  feed,       \* the project channels
  fan,        \* where each fan-out goroutine is
  item,       \* the log a fan-out goroutine is about to send
  timers,     \* cleanup timers that have not run out, by user
  pc,         \* where the handler of each tab is
  view,       \* the project a tab asked for
  channel,    \* the client whose channel a tab's stream reads
  shown,      \* history: the last log written to a tab
  delivered,  \* history: every log ever put into a client's channel
  sent        \* logs broadcast so far, for MaxSent

objects == <<project, connected, recent>>
fans    == <<feed, fan, item>>
tabs    == <<pc, view, channel, shown>>
vars    == <<hub, objects, queue, fans, timers, tabs, delivered, sent>>

Maps == [Clients         : [User -> Client \cup {None}],
         ProjectClients  : [Project -> [User -> Client \cup {None}]],
         ProjectChannels : [Project -> Client \cup {None}],
         closed          : SUBSET Client,
         shut            : SUBSET Client]

TypeOK ==
  /\ hub \in Maps
  /\ project \in [Client -> Project \cup {None}]
  /\ connected \in [Client -> BOOLEAN]
  /\ recent \in [Client -> BOOLEAN]
  /\ queue \in [Client -> Seq(Entry)]
  /\ feed \in [Client -> Seq(Entry)]
  /\ fan \in [Client -> {"none", "select", "send", "gone"}]
  /\ item \in [Client -> Entry \cup {None}]
  /\ timers \in [User -> 0 .. MaxTimers]
  /\ pc \in [Tab -> {"off", "registered", "streaming"}]
  /\ view \in [Tab -> Project \cup {None}]
  /\ channel \in [Tab -> Client \cup {None}]
  /\ shown \in [Tab -> Entry \cup {None}]
  /\ delivered \in [Client -> Seq(Entry)]
  /\ sent \in 0 .. MaxSent

Init ==
  /\ hub = [Clients         |-> [u \in User |-> None],
            ProjectClients  |-> [p \in Project |-> [u \in User |-> None]],
            ProjectChannels |-> [p \in Project |-> None],
            closed          |-> {},
            shut            |-> {}]
  /\ project = [c \in Client |-> None]
  /\ connected = [c \in Client |-> FALSE]
  /\ recent = [c \in Client |-> FALSE]
  /\ queue = [c \in Client |-> <<>>]
  /\ feed = [c \in Client |-> <<>>]
  /\ fan = [c \in Client |-> "none"]
  /\ item = [c \in Client |-> None]
  /\ timers = [u \in User |-> 0]
  /\ pc = [t \in Tab |-> "off"]
  /\ view = [t \in Tab |-> None]
  /\ channel = [t \in Tab |-> None]
  /\ shown = [t \in Tab |-> None]
  /\ delivered = [c \in Client |-> <<>>]
  /\ sent = 0

-----------------------------------------------------------------------------
(* What the methods do to the maps, under the hub's mutex *)

\* The users with a client for a project.
Users(h, p) == {u \in User : h.ProjectClients[p][u] # None}

\* The client's channel is closed.  Changed: it is left open.
StaysOpen(h, c) == h.closed
Closed(h, c) == h.closed \cup {c}

\* The client is deleted from its project's map.  Changed: it is not.
StaysFiled(h, p, u) == h.ProjectClients
Unfiled(h, p, u) == [h.ProjectClients EXCEPT ![p][u] = None]

\* The project's shutdown and project channels are closed.  Changed: they are
\* only forgotten.
NotShut(h, p) == h.shut
Shut(h, p) == h.shut \cup ({h.ProjectChannels[p]} \ {None})

\* unregisterLogsClientUnsafe: close the client's channel and forget it; with
\* the last client of a project, close the project's channels and forget them.
Unregistered(h, u) ==
  LET c    == h.Clients[u]
      p    == project[c]
      last == Users(h, p) \ {u} = {}
  IN  [Clients         |-> [h.Clients EXCEPT ![u] = None],
       ProjectClients  |-> Unfiled(h, p, u),
       ProjectChannels |-> IF last THEN [h.ProjectChannels EXCEPT ![p] = None]
                           ELSE h.ProjectChannels,
       closed          |-> Closed(h, c),
       shut            |-> IF last THEN Shut(h, p) ELSE h.shut]

\* The new client c of user u joins project p; the project's channels are
\* made if there are none.
Registered(h, u, c, p) ==
  [Clients         |-> [h.Clients EXCEPT ![u] = c],
   ProjectClients  |-> [h.ProjectClients EXCEPT ![p][u] = c],
   ProjectChannels |-> [h.ProjectChannels EXCEPT ![p] = IF @ = None THEN c ELSE @],
   closed          |-> h.closed,
   shut            |-> h.shut]

\* Client objects that were never created.
Fresh == {c \in Client : project[c] = None}

\* UpdateLogClientActivity finds the client by the user's name.
Touched(u) == IF hub.Clients[u] = None THEN recent
              ELSE [recent EXCEPT ![hub.Clients[u]] = TRUE]

-----------------------------------------------------------------------------
(* The handler of a tab: StreamLogs *)

\* RegisterLogsClient finds a recent client of the same project.
Reactivate(t, p) ==
  LET c == hub.Clients[Owner[t]] IN
  /\ pc[t] = "off"
  /\ c # None
  /\ recent[c] /\ project[c] = p
  /\ connected' = [connected EXCEPT ![c] = TRUE]
  /\ pc' = [pc EXCEPT ![t] = "registered"]
  /\ view' = [view EXCEPT ![t] = p]
  /\ UNCHANGED <<hub, project, recent, queue, fans, timers, channel, shown, delivered, sent>>

\* RegisterLogsClient makes a client, after unregistering a stale one or one
\* of another project, and starts the fan-out of the project's first client.
Create(t, p) ==
  LET u   == Owner[t]
      old == hub.Clients[u]
  IN
  /\ pc[t] = "off"
  /\ old # None => ~(recent[old] /\ project[old] = p)
  /\ \E c \in Fresh :
       /\ \A d \in Fresh : c <= d
       /\ hub' = Registered(IF old = None THEN hub ELSE Unregistered(hub, u), u, c, p)
       /\ project' = [project EXCEPT ![c] = p]
       /\ connected' = [connected EXCEPT ![c] = TRUE]
       /\ recent' = [recent EXCEPT ![c] = TRUE]
       /\ fan' = IF hub'.ProjectChannels[p] = c THEN [fan EXCEPT ![c] = "select"] ELSE fan
  /\ pc' = [pc EXCEPT ![t] = "registered"]
  /\ view' = [view EXCEPT ![t] = p]
  /\ UNCHANGED <<queue, feed, item, timers, channel, shown, delivered, sent>>

\* UnregisterLogsClient: mark the user's client and start a cleanup timer.
Unregister(t) ==
  LET u == Owner[t]
      c == hub.Clients[u]
  IN
  /\ pc' = [pc EXCEPT ![t] = "off"]
  /\ view' = [view EXCEPT ![t] = None]
  /\ channel' = [channel EXCEPT ![t] = None]
  /\ shown' = [shown EXCEPT ![t] = None]
  /\ IF c = None
     THEN UNCHANGED <<connected, timers>>
     ELSE /\ timers[u] < MaxTimers
          /\ connected' = [connected EXCEPT ![c] = FALSE]
          /\ timers' = [timers EXCEPT ![u] = @ + 1]

\* GetLogClientChannel, in a critical section of its own.
GetChannel(t) ==
  LET c == hub.Clients[Owner[t]] IN
  /\ pc[t] = "registered"
  /\ c # None /\ c \notin hub.closed
  /\ channel' = [channel EXCEPT ![t] = c]
  /\ pc' = [pc EXCEPT ![t] = "streaming"]
  /\ UNCHANGED <<hub, objects, queue, fans, timers, view, shown, delivered, sent>>

GetNoChannel(t) ==
  /\ pc[t] = "registered"
  /\ hub.Clients[Owner[t]] \in hub.closed \cup {None}
  /\ Unregister(t)
  /\ UNCHANGED <<hub, project, recent, queue, fans, delivered, sent>>

\* The main loop takes a log from the channel and writes it.
Show(t) ==
  LET c == channel[t] IN
  /\ pc[t] = "streaming"
  /\ queue[c] # <<>>
  /\ shown' = [shown EXCEPT ![t] = Head(queue[c])]
  /\ queue' = [queue EXCEPT ![c] = Tail(@)]
  /\ recent' = Touched(Owner[t])
  /\ UNCHANGED <<hub, project, connected, fans, timers, pc, view, channel, delivered, sent>>

\* The heartbeat goroutine writes every thirty seconds.
Heartbeat(t) ==
  /\ pc[t] = "streaming"
  /\ recent' = Touched(Owner[t])
  /\ UNCHANGED <<hub, project, connected, queue, fans, timers, tabs, delivered, sent>>

\* The browser is gone: writing a log, or a heartbeat, fails.
WriteFails(t) ==
  /\ pc[t] = "streaming"
  /\ \/ UNCHANGED queue
     \/ /\ queue[channel[t]] # <<>>
        /\ queue' = [queue EXCEPT ![channel[t]] = Tail(@)]
  /\ Unregister(t)
  /\ UNCHANGED <<hub, project, recent, fans, delivered, sent>>

\* The main loop finds the channel closed and drained.
StreamEnds(t) ==
  /\ pc[t] = "streaming"
  /\ channel[t] \in hub.closed
  /\ queue[channel[t]] = <<>>
  /\ Unregister(t)
  /\ UNCHANGED <<hub, project, recent, queue, fans, delivered, sent>>

-----------------------------------------------------------------------------
(* The hub's own goroutines, and time *)

\* Five seconds pass without activity of the client.
Ages(c) ==
  /\ recent[c]
  /\ recent' = [recent EXCEPT ![c] = FALSE]
  /\ UNCHANGED <<hub, project, connected, queue, fans, timers, tabs, delivered, sent>>

\* What the cleanup checks.  Changed: a client seen just now is spared.
StaleOnly(c) == c # None /\ ~connected[c] /\ ~recent[c]
StillDisconnected(c) == c # None /\ ~connected[c]

\* A timer of the user is running.  Changed: it may run out again and again.
TimerRepeats(u) == u \in User
TimerRuns(u) == timers[u] > 0

\* A cleanup timer runs out: whichever client the user has by now is removed
\* if it is marked as disconnected.
Cleanup(u) ==
  /\ TimerRuns(u)
  /\ timers' = [timers EXCEPT ![u] = @ - 1]
  /\ hub' = IF StillDisconnected(hub.Clients[u]) THEN Unregistered(hub, u) ELSE hub
  /\ UNCHANGED <<objects, queue, fans, tabs, delivered, sent>>

\* BroadcastLogs never blocks: a log for a full project channel is dropped.
Broadcast(p) ==
  LET c == hub.ProjectChannels[p] IN
  /\ sent < MaxSent
  /\ sent' = sent + 1
  /\ feed' = IF c # None /\ Len(feed[c]) < ProjectCapacity
             THEN [feed EXCEPT ![c] = Append(@, <<p, sent + 1>>)]
             ELSE feed
  /\ UNCHANGED <<hub, objects, queue, fan, item, timers, tabs, delivered>>

\* fanOutLogs receives a log, be its channel closed or not.
FanReceives(c) ==
  /\ fan[c] = "select"
  /\ feed[c] # <<>>
  /\ item' = [item EXCEPT ![c] = Head(feed[c])]
  /\ feed' = [feed EXCEPT ![c] = Tail(@)]
  /\ fan' = [fan EXCEPT ![c] = "send"]
  /\ UNCHANGED <<hub, objects, queue, timers, tabs, delivered, sent>>

\* The clients that get the log: those of the project with an open channel
\* that is not full.  Changed: the clients of every project get it.
EveryOpenClient(c) ==
  {d \in Range(hub.Clients) \ {None} : d \notin hub.closed /\ Len(queue[d]) < Capacity}
Receivers(c) ==
  {d \in Range(hub.ProjectClients[project[c]]) \ {None} :
     d \notin hub.closed /\ Len(queue[d]) < Capacity}

\* fanOutLogs sends it to the project's clients of this moment, or ends if
\* the project has none.
FanSends(c) ==
  /\ fan[c] = "send"
  /\ queue' = [d \in Client |-> IF d \in Receivers(c) THEN Append(queue[d], item[c])
                                ELSE queue[d]]
  /\ delivered' = [d \in Client |-> IF d \in Receivers(c) THEN Append(delivered[d], item[c])
                                    ELSE delivered[d]]
  /\ fan' = [fan EXCEPT ![c] = IF Users(hub, project[c]) = {} THEN "gone" ELSE "select"]
  /\ item' = [item EXCEPT ![c] = None]
  /\ UNCHANGED <<hub, objects, feed, timers, tabs, sent>>

\* fanOutLogs sees the shutdown channel, or the project channel, closed.
\* Changed: it looks only when a log arrives.
NoticesLate(c) == c \in hub.shut /\ feed[c] # <<>>
Notices(c) == c \in hub.shut

FanStops(c) ==
  /\ fan[c] = "select"
  /\ Notices(c)
  /\ fan' = [fan EXCEPT ![c] = "gone"]
  /\ UNCHANGED <<hub, objects, queue, feed, item, timers, tabs, delivered, sent>>

-----------------------------------------------------------------------------
Next ==
  \/ \E t \in Tab, p \in Project : Reactivate(t, p)
  \/ \E t \in Tab, p \in Project : Create(t, p)
  \/ \E t \in Tab : GetChannel(t)
  \/ \E t \in Tab : GetNoChannel(t)
  \/ \E t \in Tab : Show(t)
  \/ \E t \in Tab : Heartbeat(t)
  \/ \E t \in Tab : WriteFails(t)
  \/ \E t \in Tab : StreamEnds(t)
  \/ \E c \in Client : Ages(c)
  \/ \E u \in User : Cleanup(u)
  \/ \E p \in Project : Broadcast(p)
  \/ \E c \in Client : FanReceives(c)
  \/ \E c \in Client : FanSends(c)
  \/ \E c \in Client : FanStops(c)

Spec == Init /\ [][Next]_vars

\* Goroutines that can run do run: the fan-outs, the timers and the handlers'
\* main loops, on healthy connections.  Tabs need not come, go or age.  The
\* fairness of the two steps that unregister is strong only because the bound
\* on the timers can disable them for a while.
Fairness ==
  /\ \A c \in Client : WF_vars(FanReceives(c)) /\ WF_vars(FanSends(c)) /\ WF_vars(FanStops(c))
  /\ \A u \in User : WF_vars(Cleanup(u))
  /\ \A t \in Tab : /\ WF_vars(GetChannel(t)) /\ WF_vars(Show(t))
                    /\ SF_vars(GetNoChannel(t)) /\ SF_vars(StreamEnds(t))

FairSpec == Spec /\ Fairness

-----------------------------------------------------------------------------
(***************************************************************************)
(* The three maps agree: a user's client is filed under its project and    *)
(* nowhere else, its channel is open, and exactly the projects with a      *)
(* client have a project channel, which is open as well.  A send on a      *)
(* closed channel, or a second close, would end the server.                *)
(***************************************************************************)
MapsAgree ==
  /\ \A u \in User, p \in Project :
       hub.ProjectClients[p][u] =
         IF hub.Clients[u] # None /\ project[hub.Clients[u]] = p THEN hub.Clients[u] ELSE None
  /\ \A u \in User : hub.Clients[u] \notin hub.closed
  /\ \A p \in Project : /\ hub.ProjectChannels[p] = None <=> Users(hub, p) = {}
                        /\ hub.ProjectChannels[p] \notin hub.shut

(***************************************************************************)
(* The log stream of every project has one live fan-out goroutine, the one *)
(* on its project channel; every other one was told to stop.               *)
(***************************************************************************)
OneFanOut ==
  \A c \in Client :
    /\ fan[c] \in {"select", "send"} /\ c \notin hub.shut
         => hub.ProjectChannels[project[c]] = c
    /\ \A p \in Project : hub.ProjectChannels[p] = c =>
         project[c] = p /\ fan[c] \in {"select", "send"}

(***************************************************************************)
(* A client's channel carries logs of the client's project only, and no    *)
(* log twice, although an old fan-out may still be sending.                *)
(***************************************************************************)
ChannelIsFaithful ==
  \A c \in Client :
    /\ \A i \in DOMAIN delivered[c] : delivered[c][i][1] = project[c]
    /\ \A i, j \in DOMAIN delivered[c] : delivered[c][i] = delivered[c][j] => i = j

(***************************************************************************)
(* No client outlives its streams for good: one that counts as connected   *)
(* has a handler, and one that does not has a cleanup timer.               *)
(***************************************************************************)
NoClientLeaks ==
  \A u \in User : hub.Clients[u] # None =>
    IF connected[hub.Clients[u]]
    THEN \E t \in Tab : Owner[t] = u /\ pc[t] # "off"
    ELSE timers[u] > 0

(***************************************************************************)
(* No stream hangs on a channel nobody feeds: the channel it reads belongs *)
(* to the user's client in the maps, or is closed.                         *)
(***************************************************************************)
NoOrphanStream ==
  \A t \in Tab : pc[t] = "streaming" =>
    channel[t] = hub.Clients[Owner[t]] \/ channel[t] \in hub.closed

(***************************************************************************)
(* What is told to stop does: a fan-out whose project is gone, and a       *)
(* stream whose channel is closed.                                         *)
(***************************************************************************)
GoroutinesEnd ==
  /\ \A c \in Client : c \in hub.shut ~> fan[c] = "gone"
  /\ \A t \in Tab : (pc[t] = "streaming" /\ channel[t] \in hub.closed) ~> pc[t] = "off"

(***************************************************************************)
(* "Isolated Data: Each project maintains separate log streams"            *)
(* (README.md): a tab that asked for a project is shown that one's logs.   *)
(***************************************************************************)
TabShowsItsProject ==
  \A t \in Tab : shown[t] # None => shown[t][1] = view[t]
=============================================================================
