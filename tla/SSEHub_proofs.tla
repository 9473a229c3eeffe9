---------------------------- MODULE SSEHub_proofs ----------------------------
(***************************************************************************)
(* Proofs that the hub's maps, fan-outs, clients and streams stay          *)
(* consistent, for all users, tabs, projects, capacities and bounds.       *)
(***************************************************************************)
EXTENDS SSEHub, SequenceTheorems, TLAPS

\* Names for single expressions are expanded everywhere.
USE DEF Closed, Unfiled, Shut, StillDisconnected, TimerRuns, Notices

(***************************************************************************)
(* What the methods keep true of the maps h, where pr gives the project of *)
(* every client that was created: MapsAgree, and besides that a client     *)
(* belongs to one user, a project channel to its project, and nothing was  *)
(* closed that was not created.                                            *)
(***************************************************************************)
Filed(h, pr) ==
  /\ h \in Maps
  /\ \A u \in User : h.Clients[u] # None => pr[h.Clients[u]] \in Project
  /\ \A u, v \in User : h.Clients[u] # None /\ h.Clients[u] = h.Clients[v] => u = v
  /\ \A u \in User, p \in Project :
       h.ProjectClients[p][u] =
         IF h.Clients[u] # None /\ pr[h.Clients[u]] = p THEN h.Clients[u] ELSE None
  /\ \A u \in User : h.Clients[u] \notin h.closed
  /\ \A p \in Project : h.ProjectChannels[p] = None <=> Users(h, p) = {}
  /\ \A p \in Project : h.ProjectChannels[p] # None =>
       h.ProjectChannels[p] \notin h.shut /\ pr[h.ProjectChannels[p]] = p
  /\ \A c \in h.closed \cup h.shut : pr[c] \in Project

-----------------------------------------------------------------------------
(* The methods of the hub *)

\* What unregistering a user's client does to each part of the hub.
LEMMA UnregisteredParts ==
  ASSUME NEW h \in Maps, NEW u \in User, h.Clients[u] # None,
         NEW p \in Project, project[h.Clients[u]] = p
  PROVE  LET g == Unregistered(h, u) IN
         /\ g \in Maps
         /\ g.Clients = [h.Clients EXCEPT ![u] = None]
         /\ g.ProjectClients = [h.ProjectClients EXCEPT ![p][u] = None]
         /\ g.closed = h.closed \cup {h.Clients[u]}
         /\ Users(h, p) \ {u} = {} =>
              /\ g.ProjectChannels = [h.ProjectChannels EXCEPT ![p] = None]
              /\ g.shut = h.shut \cup ({h.ProjectChannels[p]} \ {None})
         /\ Users(h, p) \ {u} # {} =>
              g.ProjectChannels = h.ProjectChannels /\ g.shut = h.shut
<1>1. /\ h.Clients \in [User -> Client \cup {None}]
      /\ h.ProjectClients \in [Project -> [User -> Client \cup {None}]]
      /\ h.ProjectChannels \in [Project -> Client \cup {None}]
      /\ h.closed \subseteq Client /\ h.shut \subseteq Client
  BY DEF Maps
<1>2. h.Clients[u] \in Client
  BY <1>1
<1>3. /\ [h.Clients EXCEPT ![u] = None] \in [User -> Client \cup {None}]
      /\ [h.ProjectClients EXCEPT ![p][u] = None] \in [Project -> [User -> Client \cup {None}]]
      /\ [h.ProjectChannels EXCEPT ![p] = None] \in [Project -> Client \cup {None}]
      /\ h.closed \cup {h.Clients[u]} \subseteq Client
      /\ h.shut \cup ({h.ProjectChannels[p]} \ {None}) \subseteq Client
  BY <1>1, <1>2
<1> QED BY <1>1, <1>3 DEF Unregistered, Maps

\* Unregistering keeps the maps in order, and the user has no client.
LEMMA UnregisteredIsFiled ==
  ASSUME project \in [Client -> Project \cup {None}],
         NEW h, Filed(h, project), NEW u \in User, h.Clients[u] # None
  PROVE  /\ Filed(Unregistered(h, u), project)
         /\ Unregistered(h, u).Clients[u] = None
<1> DEFINE g == Unregistered(h, u)
           p == project[h.Clients[u]]
<1>1. /\ h \in Maps /\ p \in Project
      /\ h.Clients \in [User -> Client \cup {None}]
      /\ h.ProjectClients \in [Project -> [User -> Client \cup {None}]]
      /\ h.ProjectChannels \in [Project -> Client \cup {None}]
      /\ h.closed \subseteq Client /\ h.shut \subseteq Client
  BY DEF Filed, Maps
<1>2. /\ g \in Maps
      /\ g.Clients = [h.Clients EXCEPT ![u] = None]
      /\ g.ProjectClients = [h.ProjectClients EXCEPT ![p][u] = None]
      /\ g.closed = h.closed \cup {h.Clients[u]}
      /\ Users(h, p) \ {u} = {} =>
           /\ g.ProjectChannels = [h.ProjectChannels EXCEPT ![p] = None]
           /\ g.shut = h.shut \cup ({h.ProjectChannels[p]} \ {None})
      /\ Users(h, p) \ {u} # {} =>
           g.ProjectChannels = h.ProjectChannels /\ g.shut = h.shut
  BY <1>1, UnregisteredParts
<1> HIDE DEF g, p
<1>3. Users(g, p) = Users(h, p) \ {u}
  BY <1>1, <1>2 DEF Users
<1>4. \A q \in Project : q # p => Users(g, q) = Users(h, q)
  BY <1>1, <1>2 DEF Users
<1>5. u \in Users(h, p)
  BY <1>1 DEF Filed, Users, p
<1>6. /\ \A v \in User : g.Clients[v] # None => project[g.Clients[v]] \in Project
      /\ \A v, w \in User : g.Clients[v] # None /\ g.Clients[v] = g.Clients[w] => v = w
      /\ \A v \in User : g.Clients[v] \notin g.closed
  BY <1>1, <1>2, ConstantsAssumption DEF Filed
<1>7. ASSUME NEW v \in User, NEW q \in Project
      PROVE  g.ProjectClients[q][v] =
               IF g.Clients[v] # None /\ project[g.Clients[v]] = q THEN g.Clients[v] ELSE None
  BY <1>1, <1>2 DEF Filed, p
<1>8. \A q \in Project : g.ProjectChannels[q] = None <=> Users(g, q) = {}
  BY <1>1, <1>2, <1>3, <1>4, <1>5 DEF Filed
<1>9. \A q \in Project : g.ProjectChannels[q] # None =>
        g.ProjectChannels[q] \notin g.shut /\ project[g.ProjectChannels[q]] = q
  <2>1. CASE Users(h, p) \ {u} = {}
    BY <1>1, <1>2, <2>1 DEF Filed
  <2>2. CASE Users(h, p) \ {u} # {}
    BY <1>1, <1>2, <2>2 DEF Filed
  <2> QED BY <2>1, <2>2
<1>10. \A c \in g.closed \cup g.shut : project[c] \in Project
  <2>1. h.Clients[u] \in Client /\ project[h.Clients[u]] \in Project
    BY <1>1 DEF p
  <2>2. h.ProjectChannels[p] # None => project[h.ProjectChannels[p]] \in Project
    BY <1>1 DEF Filed
  <2>3. g.closed \cup g.shut \subseteq
          h.closed \cup h.shut \cup {h.Clients[u]} \cup ({h.ProjectChannels[p]} \ {None})
    BY <1>2
  <2> QED BY <2>1, <2>2, <2>3 DEF Filed
<1>11. g.Clients[u] = None
  BY <1>1, <1>2
<1>12. Filed(g, project)
  BY <1>2, <1>6, <1>7, <1>8, <1>9, <1>10 DEF Filed
<1> QED BY <1>11, <1>12 DEF g

\* What registering a new client does to each part of the hub.
LEMMA RegisteredParts ==
  ASSUME NEW h \in Maps, NEW u \in User, NEW c \in Client, NEW p \in Project
  PROVE  LET g == Registered(h, u, c, p) IN
         /\ g \in Maps
         /\ g.Clients = [h.Clients EXCEPT ![u] = c]
         /\ g.ProjectClients = [h.ProjectClients EXCEPT ![p][u] = c]
         /\ g.ProjectChannels = IF h.ProjectChannels[p] = None
                                THEN [h.ProjectChannels EXCEPT ![p] = c] ELSE h.ProjectChannels
         /\ g.closed = h.closed
         /\ g.shut = h.shut
<1>1. /\ h.Clients \in [User -> Client \cup {None}]
      /\ h.ProjectClients \in [Project -> [User -> Client \cup {None}]]
      /\ h.ProjectChannels \in [Project -> Client \cup {None}]
      /\ h.closed \subseteq Client /\ h.shut \subseteq Client
  BY DEF Maps
<1> DEFINE channels == [h.ProjectChannels EXCEPT
                          ![p] = IF h.ProjectChannels[p] = None THEN c ELSE h.ProjectChannels[p]]
<1>2. channels = [h.ProjectChannels EXCEPT ![p] = IF @ = None THEN c ELSE @]
  OBVIOUS
<1>3. Registered(h, u, c, p) = [Clients         |-> [h.Clients EXCEPT ![u] = c],
                                ProjectClients  |-> [h.ProjectClients EXCEPT ![p][u] = c],
                                ProjectChannels |-> channels,
                                closed          |-> h.closed,
                                shut            |-> h.shut]
  BY <1>2 DEF Registered
<1>4. channels = IF h.ProjectChannels[p] = None
                 THEN [h.ProjectChannels EXCEPT ![p] = c] ELSE h.ProjectChannels
  BY <1>1
<1>5. /\ [h.Clients EXCEPT ![u] = c] \in [User -> Client \cup {None}]
      /\ [h.ProjectClients EXCEPT ![p][u] = c] \in [Project -> [User -> Client \cup {None}]]
      /\ channels \in [Project -> Client \cup {None}]
  BY <1>1
<1> QED BY <1>1, <1>3, <1>4, <1>5 DEF Maps

\* Registering a new client keeps the maps in order.
LEMMA RegisteredIsFiled ==
  ASSUME project \in [Client -> Project \cup {None}],
         NEW h, Filed(h, project), NEW u \in User, h.Clients[u] = None,
         NEW c \in Client, project[c] = None, NEW p \in Project
  PROVE  Filed(Registered(h, u, c, p), [project EXCEPT ![c] = p])
<1> DEFINE g == Registered(h, u, c, p)
           pr == [project EXCEPT ![c] = p]
<1>1. /\ h \in Maps
      /\ h.Clients \in [User -> Client \cup {None}]
      /\ h.ProjectClients \in [Project -> [User -> Client \cup {None}]]
      /\ h.ProjectChannels \in [Project -> Client \cup {None}]
      /\ h.closed \subseteq Client /\ h.shut \subseteq Client
  BY DEF Filed, Maps
<1>2. /\ g \in Maps
      /\ g.Clients = [h.Clients EXCEPT ![u] = c]
      /\ g.ProjectClients = [h.ProjectClients EXCEPT ![p][u] = c]
      /\ g.ProjectChannels = IF h.ProjectChannels[p] = None
                             THEN [h.ProjectChannels EXCEPT ![p] = c] ELSE h.ProjectChannels
      /\ g.closed = h.closed
      /\ g.shut = h.shut
  <2> HIDE DEF pr
  <2>1. h \in Maps
    BY <1>1
  <2> QED BY ONLY <2>1, RegisteredParts, u \in User, c \in Client, p \in Project
<1> HIDE DEF g
<1>3. \A d \in Client : d # c => pr[d] = project[d]
  OBVIOUS
<1>4. pr[c] = p /\ c # None /\ None \notin Project
  BY ConstantsAssumption
<1> HIDE DEF pr
<1>5. c \notin h.closed \cup h.shut
  BY <1>4 DEF Filed
<1>6. \A v \in User : h.Clients[v] # c
  BY <1>4 DEF Filed
<1>7. \A q \in Project : h.ProjectChannels[q] # c
  BY <1>4 DEF Filed
<1>8. Users(g, p) = Users(h, p) \cup {u}
  BY <1>1, <1>2, <1>4 DEF Users
<1>9. \A q \in Project : q # p => Users(g, q) = Users(h, q)
  BY <1>1, <1>2 DEF Users
<1>10. /\ \A v \in User : g.Clients[v] # None => pr[g.Clients[v]] \in Project
       /\ \A v, w \in User : g.Clients[v] # None /\ g.Clients[v] = g.Clients[w] => v = w
       /\ \A v \in User : g.Clients[v] \notin g.closed
  BY <1>1, <1>2, <1>3, <1>4, <1>5, <1>6 DEF Filed
<1>11. ASSUME NEW v \in User, NEW q \in Project
       PROVE  g.ProjectClients[q][v] =
                IF g.Clients[v] # None /\ pr[g.Clients[v]] = q THEN g.Clients[v] ELSE None
  BY <1>1, <1>2, <1>3, <1>4, <1>6 DEF Filed
<1>12. \A q \in Project : g.ProjectChannels[q] = None <=> Users(g, q) = {}
  <2>1. g.ProjectChannels[p] # None /\ Users(g, p) # {}
    BY <1>1, <1>2, <1>4, <1>8
  <2>2. \A q \in Project : q # p => g.ProjectChannels[q] = h.ProjectChannels[q]
    BY <1>1, <1>2
  <2> QED BY <1>9, <2>1, <2>2 DEF Filed
<1>13. \A q \in Project : g.ProjectChannels[q] # None =>
         g.ProjectChannels[q] \notin g.shut /\ pr[g.ProjectChannels[q]] = q
  BY <1>1, <1>2, <1>3, <1>4, <1>5, <1>7 DEF Filed
<1>14. \A d \in g.closed \cup g.shut : pr[d] \in Project
  BY <1>1, <1>2, <1>3, <1>5 DEF Filed
<1>15. Filed(g, pr)
  BY <1>2, <1>10, <1>11, <1>12, <1>13, <1>14 DEF Filed
<1> QED BY <1>15 DEF g, pr

-----------------------------------------------------------------------------
(* The maps *)

\* The hub starts with nothing registered.
LEMMA InitFiled == Init => Filed(hub, project)
BY ConstantsAssumption DEF Init, Filed, Maps, Users

\* Every step keeps the maps in order: only a new client and a cleanup change
\* them, and both by the methods above.
LEMMA NextFiled ==
  TypeOK /\ Filed(hub, project) /\ [Next]_vars => Filed(hub, project)'
<1> SUFFICES ASSUME TypeOK, Filed(hub, project), [Next]_vars PROVE Filed(hub', project')
  BY DEF Filed
<1>t. project \in [Client -> Project \cup {None}] /\ hub.Clients \in [User -> Client \cup {None}]
  BY DEF TypeOK, Maps
<1>1. ASSUME NEW t \in Tab, NEW p \in Project, Create(t, p)
      PROVE  Filed(hub', project')
  <2> DEFINE u == Owner[t]
             h == IF hub.Clients[u] = None THEN hub ELSE Unregistered(hub, u)
  <2>1. u \in User
    BY ConstantsAssumption
  <2>2. PICK c \in Fresh : hub' = Registered(h, u, c, p) /\ project' = [project EXCEPT ![c] = p]
    BY <1>1 DEF Create
  <2>3. Filed(h, project) /\ h.Clients[u] = None
    BY <1>t, <2>1, UnregisteredIsFiled
  <2> HIDE DEF h, u
  <2> QED BY <1>t, <2>1, <2>2, <2>3, RegisteredIsFiled DEF Fresh
<1>2. ASSUME NEW u \in User, Cleanup(u)
      PROVE  Filed(hub', project')
  BY <1>t, <1>2, UnregisteredIsFiled DEF Cleanup, objects
<1>3. CASE UNCHANGED <<hub, project>>
  BY <1>3
<1> QED BY <1>1, <1>2, <1>3
        DEF Next, Reactivate, GetChannel, GetNoChannel, Show, Heartbeat, WriteFails, StreamEnds,
            Ages, Broadcast, FanReceives, FanSends, FanStops, vars, objects

-----------------------------------------------------------------------------
(* Types *)

(***************************************************************************)
(* What a goroutine has in hand: a fan-out that sends has a log, and a     *)
(* stream reads the channel of some client.                                *)
(***************************************************************************)
InHand ==
  /\ \A c \in Client : fan[c] = "send" => item[c] \in Entry
  /\ \A t \in Tab : pc[t] = "streaming" => channel[t] \in Client

\* The hub starts in a state of the right type, with nothing in hand.
LEMMA InitTypes == Init => TypeOK /\ InHand
BY ConstantsAssumption, EmptySeq DEF Init, TypeOK, InHand, Maps

\* Every step keeps the types, given that the maps keep theirs.
LEMMA NextTypes ==
  TypeOK /\ InHand /\ Filed(hub, project)' /\ [Next]_vars => TypeOK' /\ InHand'
<1> SUFFICES ASSUME TypeOK, InHand, Filed(hub, project)', [Next]_vars PROVE TypeOK' /\ InHand'
  OBVIOUS
<1>h. hub' \in Maps
  BY DEF Filed
<1>o. Owner \in [Tab -> User] /\ MaxTimers \in Nat /\ MaxSent \in Nat
      /\ None \notin Client /\ None \notin Project
  BY ConstantsAssumption
<1> USE DEF TypeOK, InHand
<1>1. ASSUME NEW t \in Tab, NEW p \in Project, Reactivate(t, p) \/ Create(t, p)
      PROVE  TypeOK' /\ InHand'
  <2>1. CASE Reactivate(t, p)
    BY <1>h, <1>o, <2>1 DEF Reactivate, fans, Maps
  <2>2. CASE Create(t, p)
    BY <1>h, <2>2 DEF Create, Fresh
  <2> QED BY <1>1, <2>1, <2>2
<1>2. ASSUME NEW t \in Tab, Unregister(t)
      PROVE  /\ pc' \in [Tab -> {"off", "registered", "streaming"}]
             /\ view' \in [Tab -> Project \cup {None}]
             /\ channel' \in [Tab -> Client \cup {None}]
             /\ shown' \in [Tab -> Entry \cup {None}]
             /\ connected' \in [Client -> BOOLEAN]
             /\ timers' \in [User -> 0 .. MaxTimers]
             /\ \A s \in Tab : pc'[s] = "streaming" => channel'[s] \in Client
  <2>1. hub.Clients[Owner[t]] \in Client \cup {None} /\ Owner[t] \in User
    BY <1>o DEF Maps
  <2>2. /\ pc' = [pc EXCEPT ![t] = "off"]
        /\ view' = [view EXCEPT ![t] = None]
        /\ channel' = [channel EXCEPT ![t] = None]
        /\ shown' = [shown EXCEPT ![t] = None]
    BY <1>2 DEF Unregister
  <2>3. connected' \in [Client -> BOOLEAN]
    BY <1>2, <2>1 DEF Unregister
  <2>4. timers' \in [User -> 0 .. MaxTimers]
    <3>1. \/ timers' = timers
          \/ /\ timers[Owner[t]] < MaxTimers
             /\ timers' = [timers EXCEPT ![Owner[t]] = timers[Owner[t]] + 1]
      BY <1>2 DEF Unregister
    <3>2. timers[Owner[t]] < MaxTimers => timers[Owner[t]] + 1 \in 0 .. MaxTimers
      BY <1>o, <2>1
    <3> QED BY <3>1, <3>2
  <2> QED BY <2>2, <2>3, <2>4
<1>3. ASSUME NEW t \in Tab, GetNoChannel(t) \/ WriteFails(t) \/ StreamEnds(t)
      PROVE  TypeOK' /\ InHand'
  <2>1. Unregister(t) /\ UNCHANGED <<hub, project, recent, fans, delivered, sent>>
    BY <1>3 DEF GetNoChannel, WriteFails, StreamEnds, fans
  <2>2. queue' \in [Client -> Seq(Entry)]
    <3>1. CASE queue' = queue
      BY <3>1
    <3>2. CASE /\ queue[channel[t]] # <<>> /\ channel[t] \in Client
               /\ queue' = [queue EXCEPT ![channel[t]] = Tail(@)]
      BY <3>2, HeadTailProperties
    <3> QED BY <1>3, <3>1, <3>2 DEF GetNoChannel, WriteFails, StreamEnds
  <2> QED BY <1>2, <1>h, <2>1, <2>2 DEF fans
<1>4. ASSUME NEW t \in Tab, GetChannel(t) \/ Show(t) \/ Heartbeat(t)
      PROVE  TypeOK' /\ InHand'
  <2>1. recent' \in [Client -> BOOLEAN]
    BY <1>4, <1>o DEF GetChannel, Show, Heartbeat, Touched, Maps, objects
  <2>2. CASE GetChannel(t)
    BY <1>h, <1>o, <2>1, <2>2 DEF GetChannel, Maps, objects, fans
  <2>3. CASE Show(t)
    BY <1>h, <2>1, <2>3, HeadTailProperties DEF Show, fans
  <2>4. CASE Heartbeat(t)
    BY <1>h, <2>1, <2>4 DEF Heartbeat, fans, tabs
  <2> QED BY <1>4, <2>2, <2>3, <2>4
<1>5. ASSUME NEW c \in Client, Ages(c)
      PROVE  TypeOK' /\ InHand'
  BY <1>h, <1>5 DEF Ages, fans, tabs
<1>6. ASSUME NEW u \in User, Cleanup(u)
      PROVE  TypeOK' /\ InHand'
  BY <1>h, <1>o, <1>6 DEF Cleanup, objects, fans, tabs
<1>7. ASSUME NEW p \in Project, Broadcast(p)
      PROVE  TypeOK' /\ InHand'
  <2>1. <<p, sent + 1>> \in Entry /\ sent' \in 0 .. MaxSent
    BY <1>o, <1>7 DEF Broadcast, Entry
  <2>2. feed' \in [Client -> Seq(Entry)]
    BY <1>7, <2>1, AppendProperties DEF Broadcast, Maps
  <2> QED BY <1>h, <1>7, <2>1, <2>2 DEF Broadcast, objects, tabs
<1>8. ASSUME NEW c \in Client, FanReceives(c)
      PROVE  TypeOK' /\ InHand'
  BY <1>h, <1>8, HeadTailProperties DEF FanReceives, objects, tabs
<1>9. ASSUME NEW c \in Client, FanSends(c)
      PROVE  TypeOK' /\ InHand'
  <2>1. item[c] \in Entry
    BY <1>9 DEF FanSends
  <2>2. queue' \in [Client -> Seq(Entry)]
    BY <1>9, <2>1, AppendProperties DEF FanSends
  <2>3. delivered' \in [Client -> Seq(Entry)]
    BY <1>9, <2>1, AppendProperties DEF FanSends
  <2>4. fan' \in [Client -> {"none", "select", "send", "gone"}] /\ fan'[c] # "send"
    BY <1>9 DEF FanSends
  <2>5. \A d \in Client : d # c => fan'[d] = fan[d] /\ item'[d] = item[d]
    BY <1>9 DEF FanSends
  <2>6. item' \in [Client -> Entry \cup {None}]
    BY <1>9 DEF FanSends
  <2>7. UNCHANGED <<hub, objects, feed, timers, tabs, sent>>
    BY <1>9 DEF FanSends
  <2>8. TypeOK'
    BY <1>h, <2>2, <2>3, <2>4, <2>6, <2>7 DEF objects, tabs
  <2>9. InHand'
    BY <2>4, <2>5, <2>7 DEF tabs
  <2> QED BY <2>8, <2>9
<1>10. ASSUME NEW c \in Client, FanStops(c)
       PROVE  TypeOK' /\ InHand'
  BY <1>h, <1>10 DEF FanStops, objects, tabs
<1>11. CASE UNCHANGED vars
  BY <1>11 DEF vars, objects, fans, tabs
<1> QED BY <1>1, <1>3, <1>4, <1>5, <1>6, <1>7, <1>8, <1>9, <1>10, <1>11 DEF Next

-----------------------------------------------------------------------------
(* Steps that change the maps *)

\* Unregistering forgets and closes one user's client, and closes the project
\* channels that it forgets.
LEMMA UnregisteredForgets ==
  ASSUME project \in [Client -> Project \cup {None}],
         NEW h, Filed(h, project), NEW u \in User, h.Clients[u] # None
  PROVE  LET g == Unregistered(h, u) IN
         /\ g.Clients[u] = None
         /\ \A v \in User : v # u => g.Clients[v] = h.Clients[v]
         /\ g.closed = h.closed \cup {h.Clients[u]}
         /\ h.shut \subseteq g.shut
         /\ \A q \in Project :
              \/ g.ProjectChannels[q] = h.ProjectChannels[q]
              \/ g.ProjectChannels[q] = None /\ h.ProjectChannels[q] \in g.shut \cup {None}
<1> DEFINE g == Unregistered(h, u)
           p == project[h.Clients[u]]
<1>1. /\ h \in Maps /\ p \in Project
      /\ h.Clients \in [User -> Client \cup {None}]
      /\ h.ProjectChannels \in [Project -> Client \cup {None}]
  BY DEF Filed, Maps
<1>2. /\ g \in Maps
      /\ g.Clients = [h.Clients EXCEPT ![u] = None]
      /\ g.ProjectClients = [h.ProjectClients EXCEPT ![p][u] = None]
      /\ g.closed = h.closed \cup {h.Clients[u]}
      /\ Users(h, p) \ {u} = {} =>
           /\ g.ProjectChannels = [h.ProjectChannels EXCEPT ![p] = None]
           /\ g.shut = h.shut \cup ({h.ProjectChannels[p]} \ {None})
      /\ Users(h, p) \ {u} # {} =>
           g.ProjectChannels = h.ProjectChannels /\ g.shut = h.shut
  BY <1>1, UnregisteredParts
<1> HIDE DEF g, p
<1>3. h.shut \subseteq g.shut
  BY <1>2
<1>4. \A q \in Project :
        \/ g.ProjectChannels[q] = h.ProjectChannels[q]
        \/ g.ProjectChannels[q] = None /\ h.ProjectChannels[q] \in g.shut \cup {None}
  <2>1. CASE Users(h, p) \ {u} = {}
    BY <1>1, <1>2, <2>1
  <2>2. CASE Users(h, p) \ {u} # {}
    BY <1>2, <2>2
  <2> QED BY <2>1, <2>2
<1> QED BY <1>1, <1>2, <1>3, <1>4 DEF g

\* A registration gives the user the new client c, closes the channel of the
\* old one, and starts a fan-out if it makes a project channel.
LEMMA CreateChanges ==
  ASSUME TypeOK, Filed(hub, project), NEW t \in Tab, NEW p \in Project, Create(t, p)
  PROVE  \E c \in Fresh :
           /\ project' = [project EXCEPT ![c] = p]
           /\ connected' = [connected EXCEPT ![c] = TRUE]
           /\ hub'.Clients[Owner[t]] = c
           /\ \A v \in User : v # Owner[t] => hub'.Clients[v] = hub.Clients[v]
           /\ hub.closed \cup ({hub.Clients[Owner[t]]} \ {None}) \subseteq hub'.closed
           /\ hub.shut \subseteq hub'.shut
           /\ \A q \in Project :
                \/ hub'.ProjectChannels[q] = hub.ProjectChannels[q]
                \/ /\ hub'.ProjectChannels[q] \in {None} \cup (IF q = p THEN {c} ELSE {})
                   /\ hub.ProjectChannels[q] \in hub'.shut \cup {None}
           /\ fan' = IF hub'.ProjectChannels[p] = c THEN [fan EXCEPT ![c] = "select"] ELSE fan
<1> DEFINE u == Owner[t]
           h == IF hub.Clients[u] = None THEN hub ELSE Unregistered(hub, u)
<1>1. u \in User /\ project \in [Client -> Project \cup {None}]
  BY ConstantsAssumption DEF TypeOK
<1>2. PICK c \in Fresh :
        /\ hub' = Registered(h, u, c, p)
        /\ project' = [project EXCEPT ![c] = p]
        /\ connected' = [connected EXCEPT ![c] = TRUE]
        /\ fan' = IF hub'.ProjectChannels[p] = c THEN [fan EXCEPT ![c] = "select"] ELSE fan
  BY DEF Create
<1>3. h \in Maps
  BY <1>1, UnregisteredIsFiled DEF Filed
<1>4. /\ \A v \in User : v # u => h.Clients[v] = hub.Clients[v]
      /\ hub.closed \cup ({hub.Clients[u]} \ {None}) \subseteq h.closed
      /\ hub.shut \subseteq h.shut
      /\ \A q \in Project :
           \/ h.ProjectChannels[q] = hub.ProjectChannels[q]
           \/ h.ProjectChannels[q] = None /\ hub.ProjectChannels[q] \in h.shut \cup {None}
  <2>1. CASE hub.Clients[u] = None
    BY <2>1
  <2>2. CASE hub.Clients[u] # None
    BY <1>1, <2>2, UnregisteredForgets
  <2> QED BY <2>1, <2>2
<1> HIDE DEF h, u
<1>5. c \in Client
  BY DEF Fresh
<1>6. /\ hub'.Clients = [h.Clients EXCEPT ![u] = c]
      /\ hub'.ProjectChannels = IF h.ProjectChannels[p] = None
                                THEN [h.ProjectChannels EXCEPT ![p] = c] ELSE h.ProjectChannels
      /\ hub'.closed = h.closed
      /\ hub'.shut = h.shut
  <2> DEFINE g == Registered(h, u, c, p)
  <2>1. /\ g \in Maps
        /\ g.Clients = [h.Clients EXCEPT ![u] = c]
        /\ g.ProjectClients = [h.ProjectClients EXCEPT ![p][u] = c]
        /\ g.ProjectChannels = IF h.ProjectChannels[p] = None
                               THEN [h.ProjectChannels EXCEPT ![p] = c] ELSE h.ProjectChannels
        /\ g.closed = h.closed
        /\ g.shut = h.shut
    BY ONLY <1>1, <1>3, <1>5, RegisteredParts, p \in Project
  <2> QED BY <1>2, <2>1
<1>7. /\ h.Clients \in [User -> Client \cup {None}]
      /\ h.ProjectChannels \in [Project -> Client \cup {None}]
  BY <1>3 DEF Maps
<1>8. hub'.Clients[u] = c /\ \A v \in User : v # u => hub'.Clients[v] = hub.Clients[v]
  BY <1>1, <1>4, <1>6, <1>7
<1>9. \A q \in Project :
        \/ hub'.ProjectChannels[q] = hub.ProjectChannels[q]
        \/ /\ hub'.ProjectChannels[q] \in {None} \cup (IF q = p THEN {c} ELSE {})
           /\ hub.ProjectChannels[q] \in hub'.shut \cup {None}
  BY <1>4, <1>6, <1>7
<1> QED BY <1>2, <1>4, <1>6, <1>8, <1>9 DEF u

-----------------------------------------------------------------------------
(* Streams *)

\* Every step keeps streams on their user's client or on a closed channel.
LEMMA NextStreams ==
  TypeOK /\ InHand /\ Filed(hub, project) /\ NoOrphanStream /\ [Next]_vars => NoOrphanStream'
<1> SUFFICES ASSUME TypeOK, InHand, Filed(hub, project), NoOrphanStream, [Next]_vars,
                    NEW s \in Tab, pc'[s] = "streaming"
             PROVE  channel'[s] = hub'.Clients[Owner[s]] \/ channel'[s] \in hub'.closed
  BY DEF NoOrphanStream
<1>o. Owner[s] \in User /\ None \notin Client /\ Owner \in [Tab -> User]
  BY ConstantsAssumption
<1>t. /\ pc \in [Tab -> {"off", "registered", "streaming"}]
      /\ channel \in [Tab -> Client \cup {None}]
      /\ project \in [Client -> Project \cup {None}]
  BY DEF TypeOK
<1>1. ASSUME NEW t \in Tab, NEW p \in Project, Create(t, p)
      PROVE  channel'[s] = hub'.Clients[Owner[s]] \/ channel'[s] \in hub'.closed
  <2>1. pc[s] = "streaming" /\ channel' = channel
    BY <1>t, <1>1 DEF Create
  <2>2. channel[s] \in Client
    BY <2>1 DEF InHand
  <2>3. channel[s] = hub.Clients[Owner[s]] \/ channel[s] \in hub.closed
    BY <2>1 DEF NoOrphanStream
  <2>4. /\ \A v \in User : v # Owner[t] => hub'.Clients[v] = hub.Clients[v]
        /\ hub.closed \cup ({hub.Clients[Owner[t]]} \ {None}) \subseteq hub'.closed
    BY <1>1, CreateChanges
  <2> QED BY <1>o, <2>1, <2>2, <2>3, <2>4
<1>2. ASSUME NEW u \in User, Cleanup(u)
      PROVE  channel'[s] = hub'.Clients[Owner[s]] \/ channel'[s] \in hub'.closed
  <2>1. pc[s] = "streaming" /\ channel' = channel
    BY <1>2 DEF Cleanup, tabs
  <2>2. channel[s] \in Client
    BY <2>1 DEF InHand
  <2>3. channel[s] = hub.Clients[Owner[s]] \/ channel[s] \in hub.closed
    BY <2>1 DEF NoOrphanStream
  <2>4. CASE hub' = hub
    BY <2>1, <2>3, <2>4
  <2>5. CASE hub.Clients[u] # None /\ hub' = Unregistered(hub, u)
    BY <1>o, <1>t, <2>1, <2>2, <2>3, <2>5, UnregisteredForgets
  <2> QED BY <1>2, <2>4, <2>5 DEF Cleanup
<1>3. ASSUME NEW t \in Tab, GetChannel(t)
      PROVE  channel'[s] = hub'.Clients[Owner[s]] \/ channel'[s] \in hub'.closed
  BY <1>t, <1>3 DEF GetChannel, NoOrphanStream
<1>4. ASSUME NEW t \in Tab, Unregister(t), hub' = hub
      PROVE  channel'[s] = hub'.Clients[Owner[s]] \/ channel'[s] \in hub'.closed
  BY <1>t, <1>4 DEF Unregister, NoOrphanStream
<1>5. ASSUME NEW t \in Tab, NEW p \in Project, Reactivate(t, p)
      PROVE  channel'[s] = hub'.Clients[Owner[s]] \/ channel'[s] \in hub'.closed
  BY <1>t, <1>5 DEF Reactivate, NoOrphanStream
<1>6. CASE UNCHANGED <<hub, pc, channel>>
  BY <1>6 DEF NoOrphanStream
<1> QED BY <1>1, <1>2, <1>3, <1>4, <1>5, <1>6
        DEF Next, GetNoChannel, Show, Heartbeat, WriteFails, StreamEnds, Ages, Broadcast,
            FanReceives, FanSends, FanStops, vars, tabs

-----------------------------------------------------------------------------
(* Fan-outs *)

(***************************************************************************)
(* One fan-out per project, and every fan-out serves a project.            *)
(***************************************************************************)
FanOuts ==
  /\ OneFanOut
  /\ \A c \in Client : fan[c] # "none" => project[c] \in Project

\* Every step keeps one live fan-out for the projects with a channel.
LEMMA NextFanOuts ==
  TypeOK /\ Filed(hub, project) /\ FanOuts /\ [Next]_vars => FanOuts'
<1> SUFFICES ASSUME TypeOK, Filed(hub, project), FanOuts, [Next]_vars PROVE FanOuts'
  OBVIOUS
<1>t. /\ fan \in [Client -> {"none", "select", "send", "gone"}]
      /\ project \in [Client -> Project \cup {None}]
      /\ hub.ProjectChannels \in [Project -> Client \cup {None}]
  BY DEF TypeOK, Maps
<1>n. None \notin Client /\ None \notin Project
  BY ConstantsAssumption
<1> SUFFICES ASSUME NEW d \in Client
             PROVE  /\ fan'[d] \in {"select", "send"} /\ d \notin hub'.shut
                         => hub'.ProjectChannels[project'[d]] = d
                    /\ \A q \in Project : hub'.ProjectChannels[q] = d =>
                         project'[d] = q /\ fan'[d] \in {"select", "send"}
                    /\ fan'[d] # "none" => project'[d] \in Project
  BY DEF FanOuts, OneFanOut
<1> DEFINE Goal == /\ fan'[d] \in {"select", "send"} /\ d \notin hub'.shut
                        => hub'.ProjectChannels[project'[d]] = d
                   /\ \A q \in Project : hub'.ProjectChannels[q] = d =>
                        project'[d] = q /\ fan'[d] \in {"select", "send"}
                   /\ fan'[d] # "none" => project'[d] \in Project
<1>d. /\ fan[d] \in {"select", "send"} /\ d \notin hub.shut => hub.ProjectChannels[project[d]] = d
      /\ \A q \in Project : hub.ProjectChannels[q] = d =>
           project[d] = q /\ fan[d] \in {"select", "send"}
      /\ fan[d] # "none" => project[d] \in Project
  BY DEF FanOuts, OneFanOut
<1>1. ASSUME NEW t \in Tab, NEW p \in Project, Create(t, p)
      PROVE  Goal
  <2>1. PICK c \in Fresh :
           /\ project' = [project EXCEPT ![c] = p]
           /\ hub.shut \subseteq hub'.shut
           /\ \A q \in Project :
                \/ hub'.ProjectChannels[q] = hub.ProjectChannels[q]
                \/ /\ hub'.ProjectChannels[q] \in {None} \cup (IF q = p THEN {c} ELSE {})
                   /\ hub.ProjectChannels[q] \in hub'.shut \cup {None}
           /\ fan' = IF hub'.ProjectChannels[p] = c THEN [fan EXCEPT ![c] = "select"] ELSE fan
    BY <1>1, CreateChanges
  <2>2. c \in Client /\ project[c] = None /\ fan[c] = "none" /\ project'[c] = p
    BY <1>t, <1>n, <2>1 DEF Fresh, FanOuts
  <2>3. \A q \in Project : hub.ProjectChannels[q] # c
    BY <1>n, <2>2 DEF FanOuts, OneFanOut
  <2>4. CASE d = c
    BY <1>t, <1>n, <2>1, <2>2, <2>3, <2>4
  <2>5. CASE d # c
    <3>1. project'[d] = project[d] /\ fan'[d] = fan[d]
      BY <1>t, <2>1, <2>2, <2>5
    <3>2. fan[d] \in {"select", "send"} /\ d \notin hub'.shut
             => hub'.ProjectChannels[project[d]] = d
      BY <1>n, <1>d, <2>1
    <3>3. \A q \in Project : hub'.ProjectChannels[q] = d => hub.ProjectChannels[q] = d
      BY <1>n, <2>1, <2>5
    <3> QED BY <1>d, <3>1, <3>2, <3>3
  <2> QED BY <2>4, <2>5
<1>2. ASSUME NEW u \in User, Cleanup(u)
      PROVE  Goal
  <2>1. fan' = fan /\ project' = project
    BY <1>2 DEF Cleanup, fans, objects
  <2>2. CASE hub' = hub
    BY <1>d, <2>1, <2>2
  <2>3. CASE hub.Clients[u] # None /\ hub' = Unregistered(hub, u)
    <3>1. /\ hub.shut \subseteq hub'.shut
          /\ \A q \in Project :
               \/ hub'.ProjectChannels[q] = hub.ProjectChannels[q]
               \/ hub'.ProjectChannels[q] = None /\ hub.ProjectChannels[q] \in hub'.shut \cup {None}
      BY <1>t, <2>3, UnregisteredForgets
    <3> QED BY <1>n, <1>d, <2>1, <3>1
  <2> QED BY <1>2, <2>2, <2>3 DEF Cleanup
<1>3. ASSUME NEW c \in Client, FanReceives(c) \/ FanSends(c) \/ FanStops(c)
      PROVE  Goal
  <2>1. hub' = hub /\ project' = project
    BY <1>3 DEF FanReceives, FanSends, FanStops, objects
  <2>2. CASE d # c
    BY <1>t, <1>d, <1>3, <2>1, <2>2 DEF FanReceives, FanSends, FanStops
  <2>3. CASE d = c
    <3>1. fan[d] \in {"select", "send"} /\ project[d] \in Project
      BY <1>d, <1>3, <2>3 DEF FanReceives, FanSends, FanStops
    <3>2. fan'[d] \in {"select", "send"} \/ \A q \in Project : hub.ProjectChannels[q] # d
      <4>1. CASE FanReceives(c)
        BY <1>t, <2>3, <4>1 DEF FanReceives
      <4>2. CASE FanSends(c)
        <5>1. CASE Users(hub, project[d]) = {}
          <6>1. hub.ProjectChannels[project[d]] = None
            BY <3>1, <5>1 DEF Filed
          <6> QED BY <1>n, <1>d, <6>1
        <5>2. CASE Users(hub, project[d]) # {}
          BY <1>t, <2>3, <4>2, <5>2 DEF FanSends
        <5> QED BY <5>1, <5>2
      <4>3. CASE FanStops(c)
        BY <1>n, <2>3, <4>3 DEF FanStops, Filed
      <4> QED BY <1>3, <4>1, <4>2, <4>3
    <3> QED BY <1>d, <2>1, <3>1, <3>2
  <2> QED BY <2>2, <2>3
<1>4. CASE UNCHANGED <<hub, project, fan>>
  BY <1>d, <1>4
<1> QED BY <1>1, <1>2, <1>3, <1>4
        DEF Next, Reactivate, GetChannel, GetNoChannel, Show, Heartbeat, WriteFails, StreamEnds,
            Ages, Broadcast, vars, objects, fans

-----------------------------------------------------------------------------
(* Clients *)

\* Every step leaves a client with a handler or with a timer.
LEMMA NextClients ==
  TypeOK /\ Filed(hub, project) /\ NoClientLeaks /\ [Next]_vars => NoClientLeaks'
<1> SUFFICES ASSUME TypeOK, Filed(hub, project), NoClientLeaks, [Next]_vars,
                    NEW v \in User, hub'.Clients[v] # None
             PROVE  IF connected'[hub'.Clients[v]]
                    THEN \E s \in Tab : Owner[s] = v /\ pc'[s] # "off"
                    ELSE timers'[v] > 0
  BY DEF NoClientLeaks
<1> DEFINE Goal == IF connected'[hub'.Clients[v]]
                   THEN \E s \in Tab : Owner[s] = v /\ pc'[s] # "off"
                   ELSE timers'[v] > 0
<1>t. /\ pc \in [Tab -> {"off", "registered", "streaming"}]
      /\ connected \in [Client -> BOOLEAN]
      /\ project \in [Client -> Project \cup {None}]
      /\ hub.Clients \in [User -> Client \cup {None}]
      /\ timers \in [User -> Nat]
  BY ConstantsAssumption DEF TypeOK, Maps
<1>n. Owner \in [Tab -> User] /\ None \notin Client /\ None \notin Project
  BY ConstantsAssumption
<1>v. hub.Clients[v] # None =>
        IF connected[hub.Clients[v]]
        THEN \E s \in Tab : Owner[s] = v /\ pc[s] # "off"
        ELSE timers[v] > 0
  BY DEF NoClientLeaks
<1>1. ASSUME NEW t \in Tab, NEW p \in Project, Create(t, p)
      PROVE  Goal
  <2>1. PICK c \in Fresh :
          /\ connected' = [connected EXCEPT ![c] = TRUE]
          /\ hub'.Clients[Owner[t]] = c
          /\ \A w \in User : w # Owner[t] => hub'.Clients[w] = hub.Clients[w]
    BY <1>1, CreateChanges
  <2>2. c \in Client /\ project[c] = None
    BY DEF Fresh
  <2>3. pc' = [pc EXCEPT ![t] = "registered"] /\ timers' = timers
    BY <1>1 DEF Create
  <2>4. CASE v = Owner[t]
    BY <1>t, <2>1, <2>2, <2>3, <2>4
  <2>5. CASE v # Owner[t]
    <3>1. hub'.Clients[v] = hub.Clients[v] /\ hub.Clients[v] # c
      BY <1>n, <2>1, <2>2, <2>5 DEF Filed
    <3>2. connected'[hub.Clients[v]] = connected[hub.Clients[v]]
      BY <1>t, <2>1, <3>1
    <3>3. \A s \in Tab : pc[s] # "off" => pc'[s] # "off"
      BY <1>t, <2>3
    <3> QED BY <1>v, <2>3, <3>1, <3>2, <3>3
  <2> QED BY <2>4, <2>5
<1>2. ASSUME NEW u \in User, Cleanup(u)
      PROVE  Goal
  <2>1. /\ connected' = connected /\ pc' = pc
        /\ timers' = [timers EXCEPT ![u] = @ - 1]
    BY <1>2 DEF Cleanup, objects, tabs
  <2>2. CASE hub' = hub /\ (hub.Clients[u] # None => connected[hub.Clients[u]])
    <3>1. CASE v = u
      BY <1>v, <2>1, <2>2, <3>1
    <3>2. CASE v # u
      BY <1>t, <1>v, <2>1, <2>2, <3>2
    <3> QED BY <3>1, <3>2
  <2>3. CASE hub.Clients[u] # None /\ hub' = Unregistered(hub, u)
    <3>1. v # u /\ hub'.Clients[v] = hub.Clients[v]
      BY <1>t, <2>3, UnregisteredForgets
    <3> QED BY <1>t, <1>v, <2>1, <3>1
  <2> QED BY <1>2, <2>2, <2>3 DEF Cleanup
<1>3. ASSUME NEW t \in Tab, Unregister(t), hub' = hub
      PROVE  Goal
  <2>1. Owner[t] \in User /\ pc' = [pc EXCEPT ![t] = "off"]
    BY <1>n, <1>3 DEF Unregister
  <2>2. CASE v = Owner[t]
    <3>1. /\ connected' = [connected EXCEPT ![hub.Clients[v]] = FALSE]
          /\ timers' = [timers EXCEPT ![v] = @ + 1]
      BY <1>3, <2>2 DEF Unregister
    <3>2. ~connected'[hub.Clients[v]] /\ timers'[v] = timers[v] + 1
      BY <1>t, <1>3, <3>1
    <3> QED BY <1>t, <1>3, <3>2
  <2>3. CASE v # Owner[t]
    <3>1. hub.Clients[v] # hub.Clients[Owner[t]] \/ hub.Clients[Owner[t]] = None
      BY <2>1, <2>3 DEF Filed
    <3>2. connected'[hub.Clients[v]] = connected[hub.Clients[v]] /\ timers'[v] = timers[v]
      BY <1>t, <1>3, <2>1, <2>3, <3>1 DEF Unregister
    <3>3. \A s \in Tab : Owner[s] = v => pc'[s] = pc[s]
      BY <1>t, <2>1, <2>3
    <3> QED BY <1>3, <1>v, <3>2, <3>3
  <2> QED BY <2>2, <2>3
<1>4. ASSUME NEW t \in Tab, NEW p \in Project, Reactivate(t, p)
      PROVE  Goal
  <2>1. /\ hub' = hub /\ timers' = timers
        /\ connected' = [connected EXCEPT ![hub.Clients[Owner[t]]] = TRUE]
        /\ pc' = [pc EXCEPT ![t] = "registered"]
    BY <1>4 DEF Reactivate
  <2>2. pc'[t] # "off" /\ \A s \in Tab : pc[s] # "off" => pc'[s] # "off"
    BY <1>t, <2>1
  <2>3. CASE v = Owner[t]
    BY <1>t, <2>1, <2>2, <2>3
  <2>4. CASE v # Owner[t]
    <3>1. hub.Clients[v] # hub.Clients[Owner[t]]
      BY <1>n, <2>1, <2>4 DEF Filed
    <3> QED BY <1>t, <1>v, <2>1, <2>2, <3>1
  <2> QED BY <2>3, <2>4
<1>5. CASE /\ UNCHANGED <<hub, connected, timers>>
           /\ \A s \in Tab : pc[s] # "off" => pc'[s] # "off"
  BY <1>v, <1>5
<1>6. ASSUME NEW t \in Tab, GetChannel(t)
      PROVE  Goal
  <2>1. UNCHANGED <<hub, connected, timers>> /\ \A s \in Tab : pc[s] # "off" => pc'[s] # "off"
    BY <1>t, <1>6 DEF GetChannel, objects
  <2> QED BY <1>5, <2>1
<1> QED BY <1>1, <1>2, <1>3, <1>4, <1>5, <1>6
        DEF Next, GetNoChannel, Show, Heartbeat, WriteFails, StreamEnds, Ages, Broadcast,
            FanReceives, FanSends, FanStops, vars, objects, tabs

-----------------------------------------------------------------------------
(* What the channels carry *)

\* The logs a fan-out still has to send: those in its project channel, and
\* the one it has in hand.
Pending(c) == Range(feed[c]) \cup (IF fan[c] = "send" THEN {item[c]} ELSE {})

(***************************************************************************)
(* Every log ever broadcast is in one place of one project: waiting for    *)
(* one fan-out, or delivered, at most once to a client; and its number     *)
(* was given out.  The fan-out that a new registration left behind may     *)
(* still send, but only what the new one never gets.                       *)
(***************************************************************************)
Provenance ==
  /\ \A c \in Client : \A e \in Pending(c) : e[1] = project[c] /\ e[2] <= sent
  /\ \A c \in Client : IsInjective(feed[c]) /\ (fan[c] = "send" => item[c] \notin Range(feed[c]))
  /\ \A c, d \in Client : c # d => Pending(c) \cap Pending(d) = {}
  /\ \A c, d \in Client : Pending(c) \cap Range(delivered[d]) = {}
  /\ \A d \in Client : \A e \in Range(delivered[d]) : e[1] = project[d] /\ e[2] <= sent
  /\ \A d \in Client : IsInjective(delivered[d])

\* Appending an element that is new keeps a sequence without repetition.
LEMMA AppendNew ==
  ASSUME NEW S, NEW s \in Seq(S), NEW e \in S
  PROVE  /\ Range(Append(s, e)) = Range(s) \cup {e}
         /\ IsInjective(s) /\ e \notin Range(s) => IsInjective(Append(s, e))
<1>1. /\ DOMAIN s = 1 .. Len(s) /\ Len(s) \in Nat
      /\ DOMAIN Append(s, e) = 1 .. Len(s) + 1
      /\ \A i \in 1 .. Len(s) : Append(s, e)[i] = s[i]
      /\ Append(s, e)[Len(s) + 1] = e
  OBVIOUS
<1> QED BY <1>1 DEF Range, IsInjective

\* The head of a sequence without repetition is not in its tail.
LEMMA TakeHead ==
  ASSUME NEW S, NEW s \in Seq(S), s # <<>>
  PROVE  /\ Head(s) \in S /\ Tail(s) \in Seq(S)
         /\ Head(s) \in Range(s)
         /\ Range(Tail(s)) \subseteq Range(s)
         /\ IsInjective(s) => Head(s) \notin Range(Tail(s)) /\ IsInjective(Tail(s))
<1>1. /\ DOMAIN s = 1 .. Len(s) /\ Len(s) \in Nat /\ Len(s) >= 1
      /\ Head(s) = s[1] /\ s[1] \in S /\ Tail(s) \in Seq(S)
      /\ DOMAIN Tail(s) = 1 .. Len(s) - 1
      /\ \A i \in 1 .. Len(s) - 1 : Tail(s)[i] = s[i + 1]
  OBVIOUS
<1> QED BY <1>1 DEF Range, IsInjective

\* No log is waiting or was delivered when the hub starts.
LEMMA InitProvenance == Init => Provenance
<1>1. Range(<<>>) = {} /\ IsInjective(<<>>)
  BY DEF Range, IsInjective
<1> QED BY <1>1 DEF Init, Provenance, Pending

\* Every step keeps each log in one place of its project.
LEMMA NextProvenance ==
  TypeOK /\ InHand /\ Filed(hub, project) /\ FanOuts /\ Provenance /\ [Next]_vars
    => Provenance'
<1> SUFFICES ASSUME TypeOK, InHand, Filed(hub, project), FanOuts, Provenance, [Next]_vars
             PROVE  Provenance'
  OBVIOUS
<1>t. /\ project \in [Client -> Project \cup {None}]
      /\ feed \in [Client -> Seq(Entry)]
      /\ delivered \in [Client -> Seq(Entry)]
      /\ fan \in [Client -> {"none", "select", "send", "gone"}]
      /\ item \in [Client -> Entry \cup {None}]
      /\ sent \in Nat
      /\ \A c \in Client : fan[c] = "send" => item[c] \in Entry
      /\ \A p \in Project : hub.ProjectChannels[p] \in Client \cup {None}
      /\ \A p \in Project : hub.ProjectChannels[p] # None => project[hub.ProjectChannels[p]] = p
  BY ConstantsAssumption DEF TypeOK, Maps, InHand, Filed
<1>n. None \notin Client /\ None \notin Project
  BY ConstantsAssumption
<1>e. \A e \in Entry : e[1] \in Project
  BY DEF Entry
<1>r. \A c \in Client : Range(feed[c]) \subseteq Entry /\ Range(delivered[c]) \subseteq Entry
  BY <1>t DEF Range
<1>q. \A c \in Client : Pending(c) \subseteq Entry
  BY <1>t, <1>r DEF Pending
<1>1. ASSUME NEW t \in Tab, NEW p \in Project, Create(t, p)
      PROVE  Provenance'
  <2>1. PICK c \in Fresh : /\ project' = [project EXCEPT ![c] = p]
                           /\ fan' \in {fan, [fan EXCEPT ![c] = "select"]}
    BY <1>1 DEF Create
  <2>2. feed' = feed /\ item' = item /\ delivered' = delivered /\ sent' = sent
    BY <1>1 DEF Create
  <2>3. c \in Client /\ project[c] = None /\ fan[c] = "none"
    BY <1>n DEF Fresh, FanOuts
  <2>4. Pending(c) = {} /\ Range(delivered[c]) = {}
    BY <1>n, <1>e, <1>q, <1>r, <2>3 DEF Provenance
  <2>5. \A d \in Client : fan'[d] = "send" <=> fan[d] = "send"
    BY <1>t, <2>1, <2>3
  <2>6. \A d \in Client : Pending(d)' = Pending(d)
    BY <2>2, <2>5 DEF Pending
  <2>7. \A d \in Client : d # c => project'[d] = project[d]
    BY <1>t, <2>1
  <2> QED BY <2>2, <2>4, <2>5, <2>6, <2>7 DEF Provenance
<1>2. ASSUME NEW p \in Project, Broadcast(p)
      PROVE  Provenance'
  <2> DEFINE e == <<p, sent + 1>>
  <2>1. /\ sent' = sent + 1
        /\ project' = project /\ fan' = fan /\ item' = item /\ delivered' = delivered
    BY <1>2 DEF Broadcast, objects
  <2>2. CASE feed' = feed
    <3>1. \A d \in Client : Pending(d)' = Pending(d)
      BY <2>1, <2>2 DEF Pending
    <3>2. \A x \in Entry : x[2] <= sent => x[2] <= sent + 1
      BY <1>t DEF Entry
    <3> QED BY <1>q, <1>r, <2>1, <2>2, <3>1, <3>2 DEF Provenance
  <2>3. ASSUME NEW c \in Client, c = hub.ProjectChannels[p],
               feed' = [feed EXCEPT ![c] = Append(@, e)]
        PROVE  Provenance'
    <3>1. project[c] = p /\ e \in Entry /\ e[1] = p /\ e[2] = sent + 1
      BY <1>2, <1>t, <1>n, <2>3, ConstantsAssumption DEF Broadcast, Entry
    <3> HIDE DEF e
    <3>2. \A d \in Client : e \notin Pending(d) /\ e \notin Range(delivered[d])
      BY <1>t, <3>1 DEF Provenance
    <3>3. /\ feed'[c] = Append(feed[c], e)
          /\ \A d \in Client : d # c => feed'[d] = feed[d]
      BY <1>t, <2>3, <3>1
    <3>4. feed[c] \in Seq(Entry) /\ e \notin Range(feed[c])
      BY <1>t, <3>1, <3>2 DEF Pending
    <3>5. /\ Range(feed'[c]) = Range(feed[c]) \cup {e}
          /\ IsInjective(feed[c]) => IsInjective(feed'[c])
      BY <3>1, <3>3, <3>4, AppendNew
    <3>6. /\ Pending(c)' = Pending(c) \cup {e}
          /\ \A d \in Client : d # c => Pending(d)' = Pending(d)
      BY <2>1, <3>3, <3>5 DEF Pending
    <3>7. fan[c] = "send" => item[c] # e
      BY <3>1, <3>2 DEF Pending
    <3>8. \A x \in Entry : x[2] <= sent => x[2] <= sent + 1
      BY <1>t DEF Entry
    <3>9. \A d \in Client : \A x \in Pending(d)' : x[1] = project[d] /\ x[2] <= sent + 1
      <4> SUFFICES ASSUME NEW d \in Client, NEW x \in Pending(d)'
                   PROVE  x[1] = project[d] /\ x[2] <= sent + 1
        OBVIOUS
      <4>1. CASE x \in Pending(d)
        BY <1>q, <3>8, <4>1 DEF Provenance
      <4>2. CASE x \notin Pending(d)
        <5>1. x = e /\ d = c
          BY <3>6, <4>2
        <5> QED BY <1>t, <3>1, <5>1
      <4> QED BY <4>1, <4>2
    <3>10. \A d \in Client : /\ IsInjective(feed'[d])
                             /\ fan[d] = "send" => item[d] \notin Range(feed'[d])
      BY <3>3, <3>5, <3>7 DEF Provenance
    <3>11. \A b, d \in Client : b # d => Pending(b)' \cap Pending(d)' = {}
      BY <3>2, <3>6 DEF Provenance
    <3>12. \A b, d \in Client : Pending(b)' \cap Range(delivered[d]) = {}
      BY <3>2, <3>6 DEF Provenance
    <3>13. \A d \in Client : \A x \in Range(delivered[d]) : x[1] = project[d] /\ x[2] <= sent + 1
      BY <1>r, <3>8 DEF Provenance
    <3> QED BY <2>1, <3>9, <3>10, <3>11, <3>12, <3>13 DEF Provenance
  <2> QED BY <1>2, <1>t, <2>2, <2>3 DEF Broadcast
<1>3. ASSUME NEW c \in Client, FanReceives(c)
      PROVE  Provenance'
  <2>1. /\ project' = project /\ delivered' = delivered /\ sent' = sent
        /\ fan[c] = "select" /\ feed[c] # <<>>
        /\ feed'[c] = Tail(feed[c]) /\ item'[c] = Head(feed[c]) /\ fan'[c] = "send"
        /\ \A d \in Client : d # c =>
             feed'[d] = feed[d] /\ item'[d] = item[d] /\ fan'[d] = fan[d]
    BY <1>3, <1>t DEF FanReceives, objects
  <2>2. feed[c] \in Seq(Entry)
    BY <1>t
  <2>3. /\ item'[c] \in Range(feed[c])
        /\ Range(feed'[c]) \subseteq Range(feed[c])
        /\ IsInjective(feed[c]) => item'[c] \notin Range(feed'[c]) /\ IsInjective(feed'[c])
    BY <2>1, <2>2, TakeHead
  <2>4. /\ Pending(c)' \subseteq Pending(c)
        /\ \A d \in Client : d # c => Pending(d)' = Pending(d)
    BY <2>1, <2>3 DEF Pending
  <2>5. \A d \in Client : Pending(d)' \subseteq Pending(d)
    BY <2>4
  <2>6. \A d \in Client : /\ IsInjective(feed'[d])
                          /\ fan'[d] = "send" => item'[d] \notin Range(feed'[d])
    BY <2>1, <2>3 DEF Provenance
  <2> QED BY <2>1, <2>5, <2>6 DEF Provenance
<1>4. ASSUME NEW c \in Client, FanSends(c)
      PROVE  Provenance'
  <2> DEFINE e == item[c]
  <2>1. /\ project' = project /\ feed' = feed /\ sent' = sent
        /\ fan[c] = "send" /\ fan'[c] # "send"
        /\ \A d \in Client : d # c => item'[d] = item[d] /\ fan'[d] = fan[d]
        /\ \A d \in Client : delivered'[d] = IF d \in Receivers(c) THEN Append(delivered[d], e)
                                             ELSE delivered[d]
    BY <1>4, <1>t DEF FanSends, objects
  <2>2. e \in Entry /\ e \in Pending(c) /\ e \notin Range(feed[c]) /\ project[c] \in Project
    BY <1>t, <2>1 DEF Pending, Provenance, FanOuts
  <2>3. /\ Pending(c)' = Pending(c) \ {e}
        /\ \A d \in Client : d # c => Pending(d)' = Pending(d)
    BY <2>1, <2>2 DEF Pending
  <2>4. \A d \in Client : e \notin Pending(d)' /\ Pending(d)' \subseteq Pending(d)
    BY <2>2, <2>3 DEF Provenance
  <2>5. \A d \in Receivers(c) : d \in Client => project[d] = project[c]
    <3>1. SUFFICES ASSUME NEW u \in User, hub.ProjectClients[project[c]][u] # None
                   PROVE  project[hub.ProjectClients[project[c]][u]] = project[c]
      BY <1>t, <2>2 DEF Receivers, Range, TypeOK, Maps
    <3> QED BY <2>2, <3>1 DEF Filed
  <2>6. \A d \in Client : e \notin Range(delivered[d])
    BY <2>2 DEF Provenance
  <2>7. \A d \in Client : /\ Range(delivered'[d]) \subseteq Range(delivered[d]) \cup {e}
                          /\ d \notin Receivers(c) => Range(delivered'[d]) = Range(delivered[d])
                          /\ IsInjective(delivered'[d])
    <3> SUFFICES ASSUME NEW d \in Client
                 PROVE  /\ Range(delivered'[d]) \subseteq Range(delivered[d]) \cup {e}
                        /\ d \notin Receivers(c) => Range(delivered'[d]) = Range(delivered[d])
                        /\ IsInjective(delivered'[d])
      OBVIOUS
    <3>1. delivered[d] \in Seq(Entry) /\ IsInjective(delivered[d])
      BY <1>t DEF Provenance
    <3>2. CASE d \in Receivers(c)
      BY <2>1, <2>2, <2>6, <3>1, <3>2, AppendNew
    <3>3. CASE d \notin Receivers(c)
      BY <2>1, <3>1, <3>3
    <3> QED BY <3>2, <3>3
  <2>8. e[1] = project[c] /\ e[2] <= sent
    BY <2>2 DEF Provenance
  <2>9. \A d \in Client : \A x \in Range(delivered'[d]) : x[1] = project[d] /\ x[2] <= sent
    BY <2>5, <2>7, <2>8 DEF Provenance
  <2>10. \A b, d \in Client : Pending(b)' \cap Range(delivered'[d]) = {}
    BY <2>4, <2>7 DEF Provenance
  <2>11. \A d \in Client : /\ IsInjective(feed'[d])
                           /\ fan'[d] = "send" => item'[d] \notin Range(feed'[d])
    BY <2>1 DEF Provenance
  <2>12. \A b, d \in Client : b # d => Pending(b)' \cap Pending(d)' = {}
    BY <2>4 DEF Provenance
  <2>13. \A d \in Client : \A x \in Pending(d)' : x[1] = project[d] /\ x[2] <= sent
    BY <2>4 DEF Provenance
  <2> QED BY <2>1, <2>7, <2>9, <2>10, <2>11, <2>12, <2>13 DEF Provenance
<1>5. ASSUME NEW c \in Client, FanStops(c)
      PROVE  Provenance'
  <2>1. /\ project' = project /\ feed' = feed /\ sent' = sent /\ item' = item
        /\ delivered' = delivered
        /\ \A d \in Client : fan'[d] = "send" <=> fan[d] = "send"
    BY <1>5, <1>t DEF FanStops, objects
  <2>2. \A d \in Client : Pending(d)' = Pending(d)
    BY <2>1 DEF Pending
  <2> QED BY <2>1, <2>2 DEF Provenance
<1>6. CASE UNCHANGED <<project, feed, fan, item, delivered, sent>>
  BY <1>6 DEF Provenance, Pending
<1> QED BY <1>1, <1>2, <1>3, <1>4, <1>5, <1>6
        DEF Next, Reactivate, GetChannel, GetNoChannel, Show, Heartbeat, WriteFails, StreamEnds,
            Ages, Cleanup, vars, objects, fans

-----------------------------------------------------------------------------
(* The inductive invariant and what follows from it *)

IInv ==
  /\ TypeOK
  /\ InHand
  /\ Filed(hub, project)
  /\ FanOuts
  /\ NoClientLeaks
  /\ NoOrphanStream
  /\ Provenance

\* The inductive invariant holds when the hub starts ...
LEMMA InitIInv == Init => IInv
<1> SUFFICES ASSUME Init PROVE IInv
  OBVIOUS
<1>1. TypeOK /\ InHand /\ Filed(hub, project)
  BY InitTypes, InitFiled
<1>2. FanOuts
  BY ConstantsAssumption DEF Init, FanOuts, OneFanOut
<1>3. NoClientLeaks /\ NoOrphanStream
  BY DEF Init, NoClientLeaks, NoOrphanStream
<1> QED BY <1>1, <1>2, <1>3, InitProvenance DEF IInv

\* ... and every step keeps it ...
LEMMA NextIInv == IInv /\ [Next]_vars => IInv'
BY NextFiled, NextTypes, NextFanOuts, NextClients, NextStreams, NextProvenance DEF IInv

\* ... so that it holds in every state of the hub.
THEOREM Invariance == Spec => []IInv
BY InitIInv, NextIInv, PTL DEF Spec

(***************************************************************************)
(* The state keeps its types.                                              *)
(***************************************************************************)
THEOREM TypeCorrect == Spec => []TypeOK
<1>1. IInv => TypeOK
  BY DEF IInv
<1> QED BY <1>1, Invariance, PTL

(***************************************************************************)
(* The hub's maps agree with each other and with what was closed, so that  *)
(* no registration, cleanup or broadcast closes a channel twice or sends   *)
(* on a closed one.                                                        *)
(***************************************************************************)
THEOREM MapsStayConsistent == Spec => []MapsAgree
<1>1. IInv => MapsAgree
  <2> SUFFICES ASSUME Filed(hub, project) PROVE MapsAgree
    BY DEF IInv
  <2>1. \A p \in Project : hub.ProjectChannels[p] \notin hub.shut
    BY ConstantsAssumption DEF Filed, Maps
  <2> QED BY <2>1 DEF Filed, MapsAgree
<1> QED BY <1>1, Invariance, PTL

(***************************************************************************)
(* Every project with a client has exactly one live fan-out goroutine.     *)
(***************************************************************************)
THEOREM FanOutsAreUnique == Spec => []OneFanOut
<1>1. IInv => OneFanOut
  BY DEF IInv, FanOuts
<1> QED BY <1>1, Invariance, PTL

(***************************************************************************)
(* Every client of the hub has a handler or a cleanup timer.               *)
(***************************************************************************)
THEOREM ClientsDoNotLeak == Spec => []NoClientLeaks
<1>1. IInv => NoClientLeaks
  BY DEF IInv
<1> QED BY <1>1, Invariance, PTL

(***************************************************************************)
(* Every stream reads its user's current channel or one that is closed.    *)
(***************************************************************************)
THEOREM StreamsAreNotOrphaned == Spec => []NoOrphanStream
<1>1. IInv => NoOrphanStream
  BY DEF IInv
<1> QED BY <1>1, Invariance, PTL

(***************************************************************************)
(* A client's channel carries the logs of its project only and none twice, *)
(* whatever fan-out an earlier registration left behind.                   *)
(***************************************************************************)
THEOREM ChannelsAreFaithful == Spec => []ChannelIsFaithful
<1>1. IInv => ChannelIsFaithful
  BY DEF IInv, Provenance, ChannelIsFaithful, Range, IsInjective
<1> QED BY <1>1, Invariance, PTL
=============================================================================
