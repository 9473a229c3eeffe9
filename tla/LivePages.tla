------------------------------ MODULE LivePages ------------------------------
(***************************************************************************)
(* The live pages of the web client, in one browser tab: the live watch of *)
(* logs (client/src/pages/logs/LiveWatch.jsx), the monitoring of metrics   *)
(* (pages/metrics/Monitoring.jsx) and the alerts (pages/alerts/Alerts.jsx).*)
(*                                                                         *)
(* Each keeps an EventSource for the project in its address: setting it up *)
(* awaits an access token, and the user may hide the tab, go on to another *)
(* project's page (the component stays, its effects run anew) or leave     *)
(* while that is under way.  A setup and the EventSource it creates have   *)
(* the same number.  The refs of the component are fields of conn; a timer *)
(* is known by the setup whose failure set it.  What a page does once it   *)
(* is unmounted to its state shows nowhere, what it does to its refs, its  *)
(* timers and its EventSources goes on.                                    *)
(*                                                                         *)
(* MaxMoves bounds what the user does to the tab, MaxFaults the failures   *)
(* of tokens, streams and the project query, MaxMessages the messages of   *)
(* all projects.                                                           *)
(*                                                                         *)
(* An operator whose comment says "Changed" is a deliberately wrong        *)
(* version of the one after it.  Nothing uses it: it is there to show      *)
(* that a property notices the mistake it describes.                       *)
(***************************************************************************)
EXTENDS Integers, Sequences, FiniteSets, SequencesExt

CONSTANTS Projects,
          MaxAttempts,  \* 5 in the code: reconnections of LiveWatch
          BatchSize,    \* BATCH_SIZE
          MaxShown,     \* MAX_LOGS, and 100 metrics
          NoId,         \* undefined: the id of an alert from the stream
          MaxMoves, MaxFaults, MaxMessages

ASSUME LimitsAssumption ==
  /\ MaxAttempts \in Nat /\ BatchSize \in Nat \ {0} /\ MaxShown \in Nat \ {0}
  /\ MaxMoves \in Nat /\ MaxFaults \in Nat /\ MaxMessages \in Nat
  /\ Projects # {} /\ IsFiniteSet(Projects)

(* Every setup follows the mount, its loading, a move or a failure.        *)
Setup == 1 .. 2 + MaxMoves + MaxFaults
NoSetup == 0

SomeProject == CHOOSE p \in Projects : TRUE

Message == Projects \X (1 .. MaxMessages)

(* Alerts are told apart by their id.  The stream brings none: the payload *)
(* is marshalled by the manager and again by handleAlertSSE, so that the   *)
(* page parses a string and spreads it.                                    *)
Listed == Message \cup {NoId}

ASSUME NoIdAssumption == NoId \notin Message

VARIABLES
  page,      \* the page the tab is on
  project,   \* useParams().projectName
  mounted, visible,
  loading,   \* isLoadingProject
  answer,    \* of the project query; isErrorProject when it has failed
  conn,      \* the refs of the component, its timers, its EventSources
  isConnected,
  buffer,    \* logBufferRef
  batch,     \* batchTimeoutRef: null, armed, or the handle of a dead timer
  shown,     \* logsData, metricsData or alerts
  read,      \* readAlerts
  loads,     \* projects whose stored logs or alerts are requested
  sent,      \* messages broadcast, by project
  moves, faults,
  (* history *)
  taken,     \* logs that went through the buffer
  overlap,   \* an answer came for a setup that something had overtaken
  stalled    \* a setup cleared the batch timer of a buffer that is not empty

(* isErrorProject || isLoadingProject: LiveWatch sets nothing up.          *)
Barred == loading \/ answer = "failed"

tab == <<page, project, mounted, visible, loading, answer>>
data == <<shown, read, loads, taken>>
vars == <<tab, conn, isConnected, buffer, batch, data, sent, moves, faults,
          overlap, stalled>>

Connection ==
  [ ref        : Setup \cup {NoSetup},   \* eventSourceRef
    cleanup    : Setup \cup {NoSetup},   \* cleanupRef
    timer      : Setup \cup {NoSetup},   \* reconnectTimeoutRef
    timers     : SUBSET Setup,           \* timers that will fire
    connecting : BOOLEAN,                \* isConnectingRef
    attempts   : 0 .. MaxFaults,
    st         : [Setup -> {"none", "token", "failed", "connecting", "open",
                            "closed"}],
    of         : [Setup -> Projects],    \* the project of its closure
    current    : [Setup -> BOOLEAN],     \* a closure of the effect's latest run
    got        : [Setup -> 0 .. MaxMessages] ]  \* messages delivered to it

TypeOK ==
  /\ page \in {"watch", "monitoring", "alerts"}
  /\ project \in Projects
  /\ mounted \in BOOLEAN /\ visible \in BOOLEAN /\ loading \in BOOLEAN
  /\ answer \in {"awaited", "given", "failed"}
  /\ conn \in Connection
  /\ isConnected \in BOOLEAN
  /\ buffer \in Seq(Message)
  /\ batch \in {"null", "armed", "dead"}
  /\ shown \in Seq(Listed) /\ (page # "alerts" => Len(shown) <= MaxShown)
  /\ read \subseteq Listed
  /\ loads \subseteq Projects
  /\ sent \in [Projects -> 0 .. MaxMessages]
  /\ moves \in 0 .. MaxMoves /\ faults \in 0 .. MaxFaults
  /\ taken \subseteq Message
  /\ overlap \in BOOLEAN /\ stalled \in BOOLEAN

-----------------------------------------------------------------------------
(* The refs.                                                               *)

Close(c, I) ==
  [c EXCEPT !.st = [i \in Setup |->
                      IF i \in I /\ @[i] \in {"connecting", "open"}
                      THEN "closed" ELSE @[i]]]

(* The timer and the existing connection, which either ref holds, are gone.*)
Release(c) ==
  [Close(c, {c.ref, c.cleanup}) EXCEPT !.ref = NoSetup, !.cleanup = NoSetup,
                                       !.timers = @ \ {c.timer}]

(* Setups of which no EventSource, timer or ref is left are forgotten.     *)
Forgetting(c) ==
  LET dead == {i \in Setup : /\ c.st[i] \in {"failed", "closed"}
                             /\ i \notin c.timers \cup {c.ref, c.cleanup}}
      Without(f, v) == [i \in Setup |-> IF i \in dead THEN v ELSE f[i]]
  IN  [c EXCEPT !.st = Without(@, "none"), !.of = Without(@, SomeProject),
                !.current = Without(@, FALSE), !.got = Without(@, 0),
                !.timer = IF @ \in c.timers THEN @ ELSE NoSetup]
Becomes(new) == \E c \in {new} : conn' = Forgetting(c)

Unused(c) == {i \in Setup : c.st[i] = "none"}

(* A call of the setup function reaches its await, in a closure of project *)
(* p that belongs to the latest run of the effect, or not.                 *)
AwaitToken(c, p, g) ==
  LET i == CHOOSE k \in Unused(c) : \A l \in Unused(c) : k <= l
  IN  [c EXCEPT !.st[i] = "token", !.of[i] = p, !.current[i] = g]

(* setupSSEConnection up to its await.  Only LiveWatch looks at the        *)
(* project query, which bars it while it loads and when it has failed, and *)
(* at isConnectingRef.  Changed: not at isConnectingRef.                   *)
ReturnsNever(c, barred) == page = "watch" /\ barred
ReturnsEarly(c, barred) == page = "watch" /\ (barred \/ c.connecting)

SetupStarted(c, p, g) ==
  IF page = "alerts" THEN AwaitToken(c, p, g)
  ELSE [AwaitToken(Release(c), p, g) EXCEPT !.timer = NoSetup, !.connecting = TRUE]

(* setupSSEConnection: the refs become c after it, in a tab where the      *)
(* batch timer is b and the buffer holds logs.                             *)
SetupCalled(c, p, g, barred, b, logs, flag) ==
  IF ReturnsEarly(c, barred)
  THEN Becomes(c) /\ batch' = b /\ isConnected' = flag /\ UNCHANGED stalled
  ELSE /\ Becomes(SetupStarted(c, p, g))
       /\ batch' = IF page = "watch" THEN "null" ELSE b
       /\ isConnected' = IF page = "watch" THEN FALSE ELSE flag
       /\ stalled' = (stalled \/ (page = "watch" /\ logs # <<>>))

(* The cleanup of the effect.  Alerts closes its EventSource and keeps the *)
(* ref.  Changed: an EventSource that is still connecting is left alone.   *)
CleanedIfOpen(c) ==
  [ (IF c.ref # NoSetup /\ c.st[c.ref] = "connecting" THEN c ELSE Release(c))
    EXCEPT !.ref = NoSetup, !.cleanup = NoSetup, !.connecting = FALSE,
           !.attempts = 0 ]
Cleaned(c) ==
  IF page = "alerts" THEN Close(c, {c.ref})
  ELSE [Release(c) EXCEPT !.connecting = FALSE, !.attempts = 0]

NextRun(c) == [c EXCEPT !.current = [i \in Setup |-> FALSE]]

ClearedBatch == IF batch = "armed" THEN "dead" ELSE batch

-----------------------------------------------------------------------------
(* The page is mounted; the project may be in the cache already.  Alerts   *)
(* asks for no project, and Monitoring's effect does not depend on it.     *)
Init ==
  /\ page \in {"watch", "monitoring", "alerts"}
  /\ project = SomeProject
  /\ mounted = TRUE /\ visible = TRUE
  /\ loading \in (IF page = "watch" THEN BOOLEAN ELSE {FALSE})
  /\ answer = IF loading THEN "awaited" ELSE "given"
  /\ LET empty == [ref |-> NoSetup, cleanup |-> NoSetup, timer |-> NoSetup,
                   timers |-> {}, connecting |-> FALSE, attempts |-> 0,
                   st |-> [i \in Setup |-> "none"],
                   of |-> [i \in Setup |-> SomeProject],
                   current |-> [i \in Setup |-> FALSE],
                   got |-> [i \in Setup |-> 0]]
     IN  conn = IF loading THEN empty ELSE SetupStarted(empty, project, TRUE)
  /\ isConnected = FALSE
  /\ buffer = <<>> /\ batch = "null" /\ shown = <<>> /\ read = {}
  /\ loads = IF loading \/ page = "monitoring" THEN {} ELSE {project}
  /\ sent = [p \in Projects |-> 0]
  /\ moves = 0 /\ faults = 0
  /\ taken = {} /\ overlap = FALSE /\ stalled = FALSE

Move == moves < MaxMoves /\ moves' = moves + 1
Fault == faults < MaxFaults /\ faults' = faults + 1

-----------------------------------------------------------------------------
(* The user and the router.                                                *)

(* The effect runs anew: its cleanup, then the setup in a new closure,     *)
(* which may be barred.  LiveWatch's cleanup leaves isConnected alone.     *)
Rerun(p, barred) ==
  /\ \E c \in {NextRun(Cleaned(conn))} :
       SetupCalled(c, p, TRUE, barred, ClearedBatch, <<>>,
                   isConnected /\ page = "watch")
  /\ buffer' = <<>>

(* The project query is answered.                                          *)
ProjectLoaded ==
  /\ mounted /\ answer = "awaited"
  /\ answer' = "given" /\ loading' = FALSE
  /\ IF loading THEN Rerun(project, FALSE) /\ loads' = loads \cup {project}
     ELSE UNCHANGED <<conn, isConnected, buffer, batch, loads, stalled>>
  /\ UNCHANGED <<page, project, mounted, visible, shown, read, taken, sent,
                 moves, faults, overlap>>

(* It fails: "Project Not Found" replaces the page, and the effect runs    *)
(* anew to return at once.  It is not asked again for this project.        *)
ProjectFails ==
  /\ mounted /\ answer = "awaited"
  /\ Fault
  /\ answer' = "failed" /\ loading' = FALSE
  /\ Rerun(project, TRUE)
  /\ UNCHANGED <<page, project, mounted, visible, shown, read, loads, taken,
                 sent, moves, overlap>>

(* The page of another project, in the cache or not: isLoadingProject is   *)
(* only TRUE until the first answer.  What is shown stays until something  *)
(* replaces it; useLazyGetAlertsQuery drops the answer for the old project.*)
Navigate(p) ==
  /\ mounted /\ p # project
  /\ Move
  /\ project' = p
  /\ \/ answer' = "given" /\ loading' = FALSE
     \/ page = "watch" /\ answer' = "awaited" /\ UNCHANGED loading
  /\ Rerun(p, loading')
  /\ loads' = CASE page = "watch"      -> IF loading' THEN loads ELSE loads \cup {p}
                [] page = "alerts"     -> {p}
                [] page = "monitoring" -> {}
  /\ UNCHANGED <<page, mounted, visible, shown, read, taken, sent, faults,
                 overlap>>

(* The page is left.  A failed project query of Monitoring comes to the    *)
(* same: what replaces the page uses components that are not imported.     *)
Unmount ==
  /\ mounted
  /\ Move
  /\ mounted' = FALSE
  /\ Becomes(NextRun(Cleaned(conn)))
  /\ isConnected' = FALSE /\ buffer' = <<>> /\ batch' = ClearedBatch
  /\ shown' = <<>> /\ read' = {} /\ loads' = {}
  /\ UNCHANGED <<page, project, visible, loading, answer, sent, faults, taken,
                 overlap, stalled>>

(* Hiding the tab ends the connection.  Changed: and says nothing of it.   *)
FlagKept(closes) == isConnected
FlagAfter(closes) == isConnected /\ ~ closes

(* handleVisibilityChange of LiveWatch and Monitoring, to hidden ...       *)
Hide ==
  /\ mounted /\ visible
  /\ Move
  /\ visible' = FALSE
  /\ LET closes == /\ conn.ref # NoSetup
                   /\ page = "monitoring"
                      \/ (page = "watch" /\ conn.st[conn.ref] = "open")
     IN  /\ IF closes
            THEN Becomes([Close(conn, {conn.ref}) EXCEPT !.ref = NoSetup])
            ELSE UNCHANGED conn
         /\ isConnected' = FlagAfter(closes)
  /\ UNCHANGED <<page, project, mounted, loading, answer, buffer, batch, data,
                 sent, faults, overlap, stalled>>

(* ... and back to visible.                                                *)
Show ==
  /\ mounted /\ ~ visible
  /\ visible' = TRUE
  /\ IF \/ page = "monitoring" /\ conn.ref = NoSetup
        \/ page = "watch" /\ (conn.ref = NoSetup \/ conn.st[conn.ref] = "closed")
     THEN SetupCalled(conn, project, TRUE, Barred, batch, buffer, isConnected)
     ELSE UNCHANGED <<conn, isConnected, batch, stalled>>
  /\ UNCHANGED <<page, project, mounted, loading, answer, buffer, data, sent,
                 moves, faults, overlap>>

-----------------------------------------------------------------------------
(* The connection.                                                         *)

(* The page was left, the effect ran anew, or another setup came or got    *)
(* through, while setup i awaited its token.                               *)
Overtaken(i) == \/ ~ mounted \/ ~ conn.current[i]
                \/ page # "alerts" /\ conn.ref # NoSetup
                \/ \E j \in Setup \ {i} : conn.st[j] = "token"

(* acquireTokenSilent is answered: the EventSource is created, whatever    *)
(* has happened meanwhile.                                                 *)
TokenArrives(i) ==
  /\ conn.st[i] = "token"
  /\ IF page = "alerts"
     THEN Becomes([Close(conn, {conn.ref}) EXCEPT !.st[i] = "connecting", !.ref = i])
     ELSE Becomes([conn EXCEPT !.st[i] = "connecting", !.ref = i, !.cleanup = i])
  /\ overlap' = (overlap \/ Overtaken(i))
  /\ UNCHANGED <<tab, isConnected, buffer, batch, data, sent, moves, faults,
                 stalled>>

(* One more attempt; LiveWatch makes no more than MaxAttempts.             *)
Retry(c, i) ==
  [c EXCEPT !.attempts = @ + 1, !.timers = @ \cup {i}, !.timer = i]

(* No account, or no token: the catch.  Alerts does not try again.         *)
TokenFails(i) ==
  /\ conn.st[i] = "token"
  /\ Fault
  /\ LET c == [conn EXCEPT !.st[i] = "failed",
                           !.connecting = @ /\ page = "alerts"]
     IN  IF \/ page = "monitoring"
            \/ page = "watch" /\ conn.attempts < MaxAttempts
         THEN conn' = Retry(c, i) ELSE Becomes(c)
  /\ isConnected' = FALSE
  /\ overlap' = (overlap \/ Overtaken(i))
  /\ UNCHANGED <<tab, buffer, batch, data, sent, moves, stalled>>

(* onopen *)
Opens(i) ==
  /\ conn.st[i] = "connecting"
  /\ LET c == [conn EXCEPT !.st[i] = "open", !.got[i] = sent[conn.of[i]]]
     IN  conn' = IF page = "alerts" THEN c
                 ELSE [c EXCEPT !.connecting = FALSE, !.attempts = 0]
  /\ isConnected' = mounted
  /\ UNCHANGED <<tab, buffer, batch, data, sent, moves, faults, overlap, stalled>>

(* onerror of LiveWatch and Monitoring: the EventSource is closed; only    *)
(* the current one is replaced.                                            *)
StreamFails(i) ==
  /\ page # "alerts" /\ conn.st[i] \in {"connecting", "open"}
  /\ Fault
  /\ LET c == [conn EXCEPT !.st[i] = "closed", !.connecting = FALSE]
     IN  IF conn.ref # i THEN Becomes(c)
         ELSE IF page = "monitoring" \/ conn.attempts < MaxAttempts
         THEN conn' = Retry(c, i)
         ELSE Becomes([c EXCEPT !.attempts = @ + 1])
  /\ isConnected' = FALSE
  /\ UNCHANGED <<tab, buffer, batch, data, sent, moves, overlap, stalled>>

(* onerror of Alerts leaves it to the browser, which connects again unless *)
(* the server refused.                                                     *)
AlertStreamFails(i) ==
  /\ page = "alerts" /\ conn.st[i] \in {"connecting", "open"}
  /\ Fault
  /\ \E s \in {"connecting", "closed"} :
       Becomes([conn EXCEPT !.st[i] = s])
  /\ isConnected' = FALSE
  /\ UNCHANGED <<tab, buffer, batch, data, sent, moves, overlap, stalled>>

(* The timer of a retry asks after onerror whether that EventSource is     *)
(* still the current one.  Changed: whether there is none.                 *)
NoneLeft(c, i) == c.ref = NoSetup
StillCurrent(c, i) == c.ref = i

(* It runs the setup of its own closure, which was not barred.             *)
RetryTimer(i) ==
  /\ i \in conn.timers
  /\ \E c \in {[conn EXCEPT !.timers = @ \ {i}]} :
         IF c.st[i] = "failed" \/ StillCurrent(c, i)
         THEN SetupCalled(c, c.of[i], c.current[i], FALSE, batch, buffer, isConnected)
         ELSE Becomes(c) /\ UNCHANGED <<isConnected, batch, stalled>>
  /\ UNCHANGED <<tab, buffer, data, sent, moves, faults, overlap>>

-----------------------------------------------------------------------------
(* The data.                                                               *)

Broadcast(p) ==
  /\ Cardinality({m \in Message : m[2] <= sent[m[1]]}) < MaxMessages
  /\ sent' = [sent EXCEPT ![p] = @ + 1]
  /\ UNCHANGED <<tab, conn, isConnected, buffer, batch, data, moves, faults,
                 overlap, stalled>>

(* Changed: one more than there may be.                                    *)
TrimLate(s) == SubSeq(s, 1, IF Len(s) <= MaxShown THEN Len(s) ELSE MaxShown + 1)
Trim(s) == SubSeq(s, 1, IF Len(s) < MaxShown THEN Len(s) ELSE MaxShown)

(* An alert from the stream is put in front, unless one of its id, which   *)
(* is none, is listed.  Changed: without looking for one.                  *)
PutInFront(list) == <<NoId>> \o list
AddAlert(list) == IF Contains(list, NoId) THEN list ELSE <<NoId>> \o list

(* Array.filter: the elements of the list that are in S, in their order.   *)
(* This is the set of the one sequence there is.                           *)
Filtered(list, S) ==
  LET kept   == {i \in DOMAIN list : list[i] \in S}
      orders == {f \in Bijection(1 .. Cardinality(kept), kept) :
                   \A j, k \in DOMAIN f : j < k => f[j] < f[k]}
  IN  {[j \in DOMAIN f |-> list[f[j]]] : f \in orders}

(* A sample that is equal to the newest one is dropped.                    *)
AddMetric(list, m) ==
  IF list # <<>> /\ Head(list) = m THEN list ELSE Trim(<<m>> \o list)

(* onmessage *)
Deliver(i) ==
  /\ conn.st[i] = "open" /\ conn.got[i] < sent[conn.of[i]]
  /\ conn' = [conn EXCEPT !.got[i] = @ + 1]
  /\ LET m == <<conn.of[i], conn'.got[i]>>
     IN  \/ /\ page = "watch"
            /\ buffer' = Append(buffer, m)
            /\ batch' = IF batch = "null" THEN "armed" ELSE batch
            /\ stalled' = (stalled /\ batch # "null")
            /\ UNCHANGED shown
         \/ /\ page # "watch"
            /\ shown' = CASE ~ mounted           -> shown
                          [] page = "monitoring" -> AddMetric(shown, m)
                          [] page = "alerts"     -> AddAlert(shown)
            /\ UNCHANGED <<buffer, batch, stalled>>
  /\ UNCHANGED <<tab, isConnected, read, loads, taken, sent, moves, faults,
                 overlap>>

(* Changed: the timer is not set again for the rest of the buffer.         *)
DisarmedAfter(rest) == "null"
ArmedAfter(rest) == IF rest # <<>> THEN "armed" ELSE "null"

(* processBatchedLogs.  With an empty buffer it leaves the ref as it is.   *)
ProcessBatchedLogs ==
  /\ batch = "armed"
  /\ LET n    == IF Len(buffer) < BatchSize THEN Len(buffer) ELSE BatchSize
         rest == SubSeq(buffer, n + 1, Len(buffer))
     IN  /\ buffer' = rest
         /\ batch' = IF buffer = <<>> THEN "dead" ELSE ArmedAfter(rest)
         /\ shown' = IF mounted THEN Trim(SubSeq(buffer, 1, n) \o shown) ELSE shown
         /\ taken' = taken \cup ToSet(SubSeq(buffer, 1, n))
  /\ UNCHANGED <<tab, conn, isConnected, read, loads, sent, moves, faults,
                 overlap, stalled>>

Stored(p, n) == [k \in 1 .. n |-> <<p, n + 1 - k>>]

(* The stored logs replace what is shown, also what came live meanwhile    *)
(* and what belongs to another project by now.  Stored alerts come after   *)
(* those that are shown, unless one with their id is: that never holds of  *)
(* one from the stream.  A request may fail.                               *)
LoadAnswered(p) ==
  /\ mounted /\ p \in loads
  /\ loads' = loads \ {p}
  /\ \/ \E n \in 0 .. sent[p] :
          IF page = "watch" THEN shown' = Trim(Stored(p, n))
          ELSE \E new \in Filtered(Stored(p, n), Listed \ ToSet(shown)) :
                 shown' = shown \o new
     \/ UNCHANGED shown
  /\ UNCHANGED <<tab, conn, isConnected, buffer, batch, read, taken, sent, moves,
                 faults, overlap, stalled>>

(* markAsRead and markAsUnread                                             *)
MarkAlert(m) ==
  /\ mounted /\ page = "alerts" /\ Contains(shown, m)
  /\ read' = IF m \in read THEN read \ {m} ELSE read \cup {m}
  /\ UNCHANGED <<tab, conn, isConnected, buffer, batch, shown, loads, taken, sent,
                 moves, faults, overlap, stalled>>

DeleteAlert(m) ==
  /\ mounted /\ page = "alerts" /\ Contains(shown, m)
  /\ shown' \in Filtered(shown, Listed \ {m})
  /\ read' = read \ {m}
  /\ UNCHANGED <<tab, conn, isConnected, buffer, batch, loads, taken, sent, moves,
                 faults, overlap, stalled>>

-----------------------------------------------------------------------------
Connect(i) == TokenArrives(i) \/ Opens(i) \/ RetryTimer(i)

Next ==
  \/ ProjectLoaded \/ ProjectFails \/ Unmount \/ Hide \/ Show
  \/ \E p \in Projects : Navigate(p) \/ Broadcast(p) \/ LoadAnswered(p)
  \/ \E i \in Setup : \/ Connect(i) \/ TokenFails(i)
                      \/ StreamFails(i) \/ AlertStreamFails(i) \/ Deliver(i)
  \/ ProcessBatchedLogs
  \/ \E m \in Listed : MarkAlert(m) \/ DeleteAlert(m)

Spec == Init /\ [][Next]_vars

(* The event loop: answers for the project, tokens and streams come, timers *)
(* fire.  Failures and moves are bounded, so each has its turn.            *)
Step == ProjectLoaded \/ ProcessBatchedLogs \/ \E i \in Setup : Connect(i)
Fairness == WF_vars(Step)

FairSpec == Spec /\ Fairness

-----------------------------------------------------------------------------
(* Properties.                                                             *)

Alive == {i \in Setup : conn.st[i] \in {"connecting", "open"}}

(* A tab has no EventSource but the one its page refers to, and none after *)
(* the page is left, through retries, hiding and navigation; unless an     *)
(* answer came for a setup that had been overtaken.  (setupSSEConnection,  *)
(* the cleanup of its effect, handleVisibilityChange)                      *)
NoLeakedSource == ~ overlap => Alive \subseteq (IF mounted THEN {conn.ref} ELSE {})

(* In LiveWatch the latest run of the effect has at most one setup under   *)
(* way, from the await to the end of its EventSource: isConnectingRef, the *)
(* timers and the visibility handler do not race.                          *)
OneSetupAtATime ==
  page = "watch" /\ ~ overlap =>
    \A i, j \in Setup :
      /\ {conn.st[i], conn.st[j]} \subseteq {"token", "connecting", "open"}
      /\ conn.current[i] /\ conn.current[j]
      => i = j

(* A log in the buffer waits for a timer, unless a setup has cleared that  *)
(* timer; then the next log sets it again.  When the project query has     *)
(* failed there are no logs to see.  (BATCH_SIZE, batchTimeoutRef)         *)
BufferDrains ==
  page = "watch" /\ mounted /\ answer # "failed" /\ buffer # <<>>
    => batch = "armed" \/ stalled

(* No two listed alerts have the same id, the one that has none included:  *)
(* filtering, marking and deleting by id each mean one entry; and the read *)
(* ones are listed, so that the count of unread alerts is true.  No sample *)
(* is listed twice and no log goes twice through the buffer unless         *)
(* EventSources overlapped.  (The stored copy of an alert from the stream  *)
(* has an id and is listed beside it.)                                     *)
OnceById ==
  /\ page = "alerts" => IsInjective(shown) /\ read \subseteq ToSet(shown)
  /\ page = "monitoring" /\ ~ overlap => IsInjective(shown)
  /\ page = "watch" /\ ~ overlap =>
       IsInjective(buffer) /\ ToSet(buffer) \cap taken = {}

(* "Connected" is shown only while the page's own EventSource is open.     *)
(* When the project query has failed, LiveWatch shows no status at all.    *)
ConnectedIsTrue ==
  isConnected /\ ~ overlap /\ answer # "failed" =>
    conn.ref # NoSetup /\ conn.st[conn.ref] = "open"

(* A page of logs or metrics that stays open and in sight is connected to  *)
(* its own project's stream for ever once failures cease; unless LiveWatch *)
(* has used up its attempts or its project query has failed, which nothing *)
(* asks again, or an answer came for a setup that had been overtaken.      *)
(* (onerror and its timer, handleVisibilityChange, isConnectingRef)        *)
Reconnects ==
  page # "alerts" =>
    (<>[](/\ mounted /\ visible /\ answer # "failed" /\ ~ overlap
          /\ page = "monitoring" \/ conn.attempts < MaxAttempts)
       => <>[](/\ conn.ref # NoSetup /\ conn.st[conn.ref] = "open"
               /\ conn.of[conn.ref] = project))
=============================================================================
