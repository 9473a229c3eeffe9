---------------------------- MODULE AlertManager ----------------------------
(***************************************************************************)
(* The alert manager: a timer function that once a minute evaluates the    *)
(* alert rules of the active projects, keeps the highest priority rule of  *)
(* each group, drops what is in its cooldown (a key with a TTL in Redis)   *)
(* and publishes the rest on a Redis channel.                              *)
(* (alert-manager/src/functions/alert-cron.js, config/redis.js, config/pg.js) *)
(*                                                                         *)
(* Every await is a step of its own: time passes, the readings change,     *)
(* projects are switched on and off and the host may die in between.  Each *)
(* run checks a client out of the PostgreSQL pool and never gives it back, *)
(* so a pool of PoolMax clients lasts PoolMax - 1 runs; the run after that *)
(* waits for ever, until the host kills it and starts a new process.       *)
(*                                                                         *)
(* Time is counted in minutes.  A fault is any failed call or a crash;     *)
(* MaxFaults bounds them, the kill of a run that hangs is not one.         *)
(*                                                                         *)
(* An operator whose comment says "Changed" is a deliberately wrong        *)
(* version of the one after it.  Nothing uses it: it is there to show      *)
(* that a property notices the mistake it describes.                       *)
(***************************************************************************)
EXTENDS AlertRules

CONSTANTS Projects,      \* names of projects
          Rules,         \* the rows of the table alerts
          MethodRows,    \* [Rules -> Seq of rows of the table alert_methods]
          Windows,       \* Windows[p]: what Elasticsearch may answer for project p
          Cooldown,      \* ALERT_COOLDOWN_PERIOD
          PoolMax,       \* clients of the pg pool
          NoKey,         \* GET of a key that does not exist
          MaxFaults      \* bound of this model on failures

ASSUME RulesAssumption ==
  /\ Rules \subseteq Rule
  /\ IsFiniteSet(Rules)
  /\ \A r \in Rules : r.project_name \in Projects
ASSUME CooldownAssumption == Cooldown \in Nat \ {0}
ASSUME PoolAssumption == PoolMax \in Nat \ {0, 1}
ASSUME FaultAssumption == MaxFaults \in Nat
ASSUME NoKeyAssumption == NoKey \notin Nat

VARIABLES
  active,     \* projects with active /\ active_monitoring in the database
  window,     \* window[p]: what Elasticsearch answers for p now
  ttl,        \* ttl[k]: minutes the cooldown key k has left, 0: no key
  pgHeld,     \* clients checked out of the pool
  due,        \* the schedule has come up since the last start
  pc,         \* where the handler awaits
  todo,       \* projects of the run still to be processed
  rules,      \* rules of the project still to be evaluated
  triggered,  \* rules of the project that triggered and have a destination
  batch,      \* alertsToSend
  left,       \* the part of batch the cooldown loop has still to visit
  last,       \* last[r]: age of the timestamp that GET returned for r
  fresh,      \* filteredAlerts
  sent,       \* published in this run, in order
  faults,     \* failures so far
  (* history *)
  since,      \* since[k]: minutes since an alert with key k passed the filter
  unfiltered, \* keys whose last alert passed because Redis failed
  outcome     \* outcome[k]: what became of the alert that set key k

db      == <<active, window>>
run     == <<todo, rules, triggered, batch, left, last, fresh>>
history == <<since, unfiltered, outcome>>
vars    == <<active, window, ttl, pgHeld, due, pc, todo, rules, triggered,
             batch, left, last, fresh, sent, faults, since, unfiltered, outcome>>

Keys == {createAlertCacheKey(r) : r \in Rules}
Key(r) == createAlertCacheKey(r)
Ages == 0 .. Cooldown + 1

NoTimestamps == [r \in Rules |-> NoKey]

TypeOK ==
  /\ active \subseteq Projects
  /\ DOMAIN window = Projects
  /\ \A p \in Projects : window[p] \in Windows[p]
  /\ ttl \in [Keys -> 0 .. Cooldown]
  /\ pgHeld \in 0 .. PoolMax
  /\ due \in BOOLEAN
  /\ pc \in {"idle", "connect", "list", "project", "evaluate", "filter",
             "cool", "publish", "fallback"}
  /\ todo \subseteq Projects
  /\ rules \subseteq Rules
  /\ triggered \subseteq Rules
  /\ batch \subseteq Rules
  /\ left \subseteq Rules
  /\ last \in [Rules -> Ages \cup {NoKey}]
  /\ fresh \subseteq Rules
  /\ sent \in Seq(Rules)
  /\ faults \in 0 .. MaxFaults
  /\ since \in [Keys -> 0 .. Cooldown]
  /\ unfiltered \subseteq Keys
  /\ outcome \in [Keys -> {"none", "pending", "sent", "lost"}]

Init ==
  /\ active = Projects
  /\ window \in [Projects -> UNION {Windows[p] : p \in Projects}]
  /\ \A p \in Projects : window[p] \in Windows[p]
  /\ ttl = [k \in Keys |-> 0]
  /\ pgHeld = 0
  /\ due = FALSE
  /\ pc = "idle"
  /\ todo = {} /\ rules = {} /\ triggered = {} /\ batch = {}
  /\ left = {} /\ last = NoTimestamps /\ fresh = {} /\ sent = <<>>
  /\ faults = 0
  /\ since = [k \in Keys |-> Cooldown]
  /\ unfiltered = {}
  /\ outcome = [k \in Keys |-> "none"]

-----------------------------------------------------------------------------
(* The environment.                                                        *)

(* A minute passes: keys expire, timestamps age, the schedule comes up.    *)
Minute ==
  /\ ttl' = [k \in Keys |-> IF ttl[k] = 0 THEN 0 ELSE ttl[k] - 1]
  /\ last' = [r \in Rules |-> IF last[r] \in 0 .. Cooldown
                              THEN last[r] + 1 ELSE last[r]]
  /\ since' = [k \in Keys |-> IF since[k] = Cooldown THEN Cooldown
                                                     ELSE since[k] + 1]
  /\ due' = TRUE
  /\ UNCHANGED <<db, pgHeld, pc, todo, rules, triggered, batch, left,
                 fresh, sent, faults, unfiltered, outcome>>

(* Samples and logs arrive, older ones leave the window.                   *)
ReadingsChange(p) ==
  /\ \E w \in Windows[p] \ {window[p]} : window' = [window EXCEPT ![p] = w]
  /\ UNCHANGED <<active, ttl, pgHeld, due, pc, run, sent, faults, history>>

(* A user switches a project or its monitoring on or off.                  *)
Switch(p) ==
  /\ active' = IF p \in active THEN active \ {p} ELSE active \cup {p}
  /\ UNCHANGED <<window, ttl, pgHeld, due, pc, run, sent, faults, history>>

-----------------------------------------------------------------------------
Fault == faults < MaxFaults /\ faults' = faults + 1
NoFault == UNCHANGED faults

EndRun ==
  /\ pc' = "idle" /\ todo' = {} /\ rules' = {} /\ triggered' = {}
  /\ batch' = {} /\ left' = {} /\ last' = NoTimestamps /\ fresh' = {}

(* The timer is a singleton: a start that comes up during a run waits.     *)
TimerFires ==
  /\ pc = "idle" /\ due
  /\ pc' = "connect" /\ due' = FALSE /\ sent' = <<>>
  /\ UNCHANGED <<db, ttl, pgHeld, run, faults, history>>

(* await pg.connect(): the client is not kept, hence never released.       *)
PgConnect ==
  /\ pc = "connect" /\ pgHeld < PoolMax
  /\ \/ /\ pgHeld' = pgHeld + 1 /\ pc' = "list"
        /\ NoFault /\ UNCHANGED run
     \/ Fault /\ EndRun /\ UNCHANGED pgHeld
  /\ UNCHANGED <<db, ttl, due, sent, history>>

(* The query takes a client of the pool too.  Projects that are not active *)
(* are skipped by what this query returned.                                *)
ListProjects ==
  /\ pc = "list" /\ pgHeld < PoolMax
  /\ \/ /\ pc' = "project" /\ todo' = active
        /\ NoFault
        /\ UNCHANGED <<rules, triggered, batch, left, last, fresh>>
     \/ Fault /\ EndRun
  /\ UNCHANGED <<db, ttl, pgHeld, due, sent, history>>

(* The rules of the next project; an error ends the whole run.             *)
NextProject ==
  /\ pc = "project"
  /\ \/ \E p \in todo :
          /\ todo' = todo \ {p}
          /\ rules' = {r \in Rules : r.project_name = p}
          /\ triggered' = {}
          /\ pc' = IF rules' = {} THEN "project" ELSE "evaluate"
          /\ NoFault /\ UNCHANGED <<batch, left, last, fresh>>
     \/ todo = {} /\ EndRun /\ NoFault
     \/ Fault /\ EndRun
  /\ UNCHANGED <<db, ttl, pgHeld, due, sent, history>>

(* One rule: a bad time window, a failed search and a failed query for the *)
(* destinations are caught and skip the rule only; so does a rule without  *)
(* destination rows.  A rule whose rows are all blank goes on with none.   *)
ProcessAlert ==
  /\ pc = "evaluate"
  /\ \E r \in rules :
       /\ rules' = rules \ {r}
       /\ \/ /\ triggered' = IF /\ ValidTimeWindow(r.time_window)
                                /\ Triggers(r, window[r.project_name])
                                /\ MethodRows[r] # <<>>
                             THEN triggered \cup {r} ELSE triggered
             /\ NoFault
          \/ Fault /\ UNCHANGED triggered
  /\ UNCHANGED <<db, ttl, pgHeld, due, pc, todo, batch, left, last, fresh,
                 sent, history>>

(* groupAlertsByType and selectHighestPriorityAlerts; with nothing to send *)
(* the filter and the publication return at once.                          *)
(* Changed: those in their cooldown are left out before the selection.     *)
SelectAfterFilter ==
  /\ pc = "evaluate" /\ rules = {}
  /\ batch' \in SUBSET triggered
  /\ IsSelection(batch', {r \in triggered : ttl[Key(r)] = 0})
  /\ fresh' = {}
  /\ pc' = IF batch' = {} THEN "project" ELSE "filter"
  /\ UNCHANGED <<db, ttl, pgHeld, due, todo, rules, triggered, left, last,
                 sent, faults, history>>
SelectAlerts ==
  /\ pc = "evaluate" /\ rules = {}
  /\ batch' \in SUBSET triggered
  /\ IsSelection(batch', triggered)
  /\ fresh' = {}
  /\ pc' = IF batch' = {} THEN "project" ELSE "filter"
  /\ UNCHANGED <<db, ttl, pgHeld, due, todo, rules, triggered, left, last,
                 sent, faults, history>>

(* History: the alerts R pass the filter, unchecked when by the catch.     *)
Passed(R, unchecked) ==
  LET keys == {Key(r) : r \in R}
  IN  /\ since' = [k \in Keys |-> IF k \in keys THEN 0 ELSE since[k]]
      /\ unfiltered' = IF unchecked THEN unfiltered \cup keys
                                    ELSE unfiltered \ keys
      /\ outcome' = [k \in Keys |-> IF k \in keys THEN "pending" ELSE outcome[k]]

(* catch: return alerts -- all of them, those in their cooldown too.       *)
(* Changed: only those that passed before the failure.                     *)
ReturnFiltered ==
  /\ fresh' = fresh /\ pc' = "publish" /\ left' = {} /\ last' = NoTimestamps
  /\ Passed(batch, TRUE)
ReturnAll ==
  /\ fresh' = batch /\ pc' = "publish" /\ left' = {} /\ last' = NoTimestamps
  /\ Passed(batch, TRUE)

(* One MULTI with a GET for each alert.                                    *)
ReadCooldowns ==
  /\ pc = "filter"
  /\ \/ /\ last' = [r \in Rules |-> IF r \in batch /\ ttl[Key(r)] > 0
                                    THEN Cooldown - ttl[Key(r)] ELSE NoKey]
        /\ left' = batch
        /\ pc' = "cool"
        /\ NoFault /\ UNCHANGED <<fresh, history>>
     \/ Fault /\ ReturnAll
  /\ UNCHANGED <<db, ttl, pgHeld, due, todo, rules, triggered, batch, sent>>

(* Changed: the cooldown is compared in the wrong unit; the check for a    *)
(* missing timestamp is inverted.                                          *)
JustSent(r) == last[r] = 0
SentOrNever(r) == last[r] = NoKey \/ last[r] <= Cooldown
CoolingDown(r) == last[r] # NoKey /\ last[r] <= Cooldown

(* Changed: the key outlives the cooldown.                                 *)
SetExLonger(r) == ttl' = [ttl EXCEPT ![Key(r)] = Cooldown + 1]
SetEx(r) == ttl' = [ttl EXCEPT ![Key(r)] = Cooldown]

(* One turn of the loop: an alert outside its cooldown passes, and its key *)
(* is set before the alert is published.                                   *)
AdmitAlert(r) ==
  /\ pc = "cool" /\ r \in left
  /\ \/ /\ IF CoolingDown(r)
           THEN UNCHANGED <<ttl, fresh, history>>
           ELSE SetEx(r) /\ fresh' = fresh \cup {r} /\ Passed({r}, FALSE)
        /\ left' = left \ {r}
        /\ last' = [last EXCEPT ![r] = NoKey]
        /\ pc' = IF left' = {} THEN "publish" ELSE "cool"
        /\ NoFault
     \/ /\ ~ CoolingDown(r) /\ Fault
        /\ SetEx(r) \/ UNCHANGED ttl
        /\ ReturnAll
  /\ UNCHANGED <<db, pgHeld, due, todo, rules, triggered, batch, sent>>

(* History: what becomes of the alerts that passed.                        *)
Settle(R, what) ==
  outcome' = [k \in Keys |-> IF k \in {Key(r) : r \in R} /\ outcome[k] = "pending"
                             THEN what ELSE outcome[k]]

(* The order of the alerts in the MULTI.                                   *)
Orders(R) == {s \in [1 .. Cardinality(R) -> R] : \A r \in R : \E i \in DOMAIN s : s[i] = r}

(* One MULTI with a PUBLISH for each alert.  When it fails the commands    *)
(* may have been executed nevertheless, the reply being lost.              *)
PublishAlerts ==
  /\ pc = "publish"
  /\ \/ /\ \E s \in Orders(fresh) : sent' = sent \o s
        /\ Settle(fresh, "sent")
        /\ pc' = "project" /\ fresh' = {} /\ batch' = {}
        /\ NoFault
     \/ /\ fresh # {} /\ Fault
        /\ pc' = "fallback" /\ UNCHANGED <<fresh, batch>>
        /\ \/ \E s \in Orders(fresh) : sent' = sent \o s /\ Settle(fresh, "sent")
           \/ UNCHANGED <<sent, outcome>>
  /\ UNCHANGED <<db, ttl, pgHeld, due, todo, rules, triggered, left, last,
                 since, unfiltered>>

(* publishAlertsIndividually: publishAsync is not imported by alert-cron,  *)
(* so each turn throws a ReferenceError and handleFailedAlert logs it.     *)
(* Changed: it is imported.                                                *)
PublishOnceMore ==
  /\ pc = "fallback"
  /\ pc' = "project" /\ fresh' = {} /\ batch' = {}
  /\ \E s \in Orders(fresh) : sent' = sent \o s
  /\ Settle(fresh, "sent")
  /\ UNCHANGED <<db, ttl, pgHeld, due, todo, rules, triggered, left, last,
                 faults, since, unfiltered>>
PublishIndividually ==
  /\ pc = "fallback"
  /\ pc' = "project" /\ fresh' = {} /\ batch' = {}
  /\ Settle(fresh, "lost")
  /\ UNCHANGED <<db, ttl, pgHeld, due, todo, rules, triggered, left, last,
                 sent, faults, since, unfiltered>>

-----------------------------------------------------------------------------
(* The run waits for a client of a pool that has none left.                *)
Hangs == pc \in {"connect", "list"} /\ pgHeld = PoolMax

NewProcess ==
  /\ EndRun
  /\ pgHeld' = 0
  /\ Settle(fresh, "lost")
  /\ UNCHANGED <<db, ttl, due, sent, since, unfiltered>>

(* The host kills the process of a function that exceeds its time limit.   *)
HostTimeout == Hangs /\ NewProcess /\ NoFault

(* The host is moved or dies, or redis.js exits the process because it     *)
(* cannot connect.                                                         *)
HostCrash == Fault /\ NewProcess

-----------------------------------------------------------------------------
Step ==
  \/ TimerFires \/ PgConnect \/ ListProjects \/ NextProject \/ ProcessAlert
  \/ SelectAlerts \/ ReadCooldowns \/ (\E r \in Rules : AdmitAlert(r))
  \/ PublishAlerts \/ PublishIndividually

Next ==
  \/ Step \/ HostTimeout \/ HostCrash \/ Minute
  \/ \E p \in Projects : ReadingsChange(p) \/ Switch(p)

Spec == Init /\ [][Next]_vars

(* The schedule comes up again and again, the event loop runs the handler  *)
(* on, and the host enforces its time limit.                               *)
Fairness == WF_vars(Step) /\ WF_vars(Minute) /\ WF_vars(HostTimeout)

FairSpec == Spec /\ Fairness

-----------------------------------------------------------------------------
(* Properties.                                                             *)

(* An alert that passes the filter because Redis says it is not in its     *)
(* cooldown comes a whole cooldown after the last alert with its key,      *)
(* unless that one passed unchecked because Redis failed: TTL of the key,  *)
(* timestamp read earlier and comparison together, over slow runs and      *)
(* restarts.  (filterRecentAlertsWithRedis)                                *)
CooldownRespected ==
  [][\A r \in Rules :
       (r \in fresh' \ fresh /\ Key(r) \notin unfiltered')
         => since[Key(r)] = Cooldown \/ Key(r) \in unfiltered]_vars

(* A key silences its alert for a cooldown although it is set before the   *)
(* alert is published.  So an alert that passed is published, in hand to   *)
(* be published, or was lost to a failure; the kill of a run that hangs on *)
(* the pool never loses one.  (the order of setEx and publish)             *)
NothingForgotten ==
  \A k \in Keys :
    /\ outcome[k] = "pending" => \E r \in fresh : Key(r) = k
    /\ outcome[k] = "lost" => faults > 0
    /\ ttl[k] > 0 => outcome[k] # "none"

(* "Send only the highest priority alert for each group": a run publishes  *)
(* at most one alert of a group, also when a MULTI whose reply is lost has *)
(* been executed and the individual publication follows.                   *)
OneAlertPerGroup ==
  \A i, j \in DOMAIN sent : GroupOf(sent[i]) = GroupOf(sent[j]) => i = j

(* While a stronger rule of the group is triggered, a weaker one is not    *)
(* sent in its place, even if the stronger is silenced by its cooldown.    *)
NoWeakerSubstitute ==
  \A s \in fresh, r \in triggered : GroupOf(s) = GroupOf(r) => ~ Outranks(r, s)

(* A rule that goes on being the only one of its group to trigger, in a    *)
(* project that stays active, is published again and again once failures   *)
(* have ceased, in spite of the clients leaked and the runs that hang.     *)
Standing(r) ==
  /\ r.project_name \in active
  /\ ValidTimeWindow(r.time_window) /\ MethodRows[r] # <<>>
  /\ Triggers(r, window[r.project_name])
  /\ \A s \in Rules \ {r} :
       GroupOf(s) = GroupOf(r) => ~ Triggers(s, window[s.project_name])

StandingRuleReported ==
  \A r \in Rules : <>[]Standing(r) => []<>(\E i \in DOMAIN sent : sent[i] = r)
=============================================================================
