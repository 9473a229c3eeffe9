------------------------- MODULE AlertManager_proofs -------------------------
(***************************************************************************)
(* What AlertManager checks on a small instance holds for all rules,       *)
(* readings, projects, cooldowns, pools and numbers of failures: the       *)
(* types, that cooldowns are respected, that no alert is forgotten, that a *)
(* run publishes one alert of a group and none in place of a stronger one. *)
(***************************************************************************)
EXTENDS AlertManager, FiniteSetTheorems, TLAPS

Before == {"idle", "connect", "list", "project", "evaluate"}

(* The alerts in hand are selected from those that triggered; none is in   *)
(* hand before the selection, and only a failure leads to the fallback.    *)
Batches ==
  /\ fresh \subseteq batch /\ left \subseteq batch /\ batch \subseteq triggered
  /\ pc \in Before => batch = {}
  /\ pc \notin Before => IsSelection(batch, triggered)
  /\ pc = "filter" => fresh = {}
  /\ pc # "cool" => left = {}
  /\ pc = "fallback" => faults > 0

(* A cooldown that began with a checked alert is what its key has left ... *)
Timers ==
  \A k \in Keys : k \notin unfiltered /\ since[k] < Cooldown => ttl[k] = Cooldown - since[k]

(* ... and the timestamp that was read for an alert is no older than its   *)
(* last alert, however long the loop takes.                                *)
Reads ==
  \A r \in left : Key(r) \notin unfiltered /\ since[Key(r)] # Cooldown
    => last[r] # NoKey /\ last[r] <= since[Key(r)]

(* What is published is of projects that are done with.                    *)
SentProjects ==
  /\ pc \in {"connect", "list"} => sent = <<>>
  /\ \A i \in DOMAIN sent : sent[i].project_name \notin todo
  /\ pc \notin {"idle", "connect", "list", "project"} =>
       \A r \in rules \cup triggered : r.project_name \notin todo
  /\ pc \in {"evaluate", "filter", "cool", "publish"} =>
       \A r \in rules \cup triggered, i \in DOMAIN sent :
         sent[i].project_name # r.project_name

Inv == /\ TypeOK /\ Batches /\ NothingForgotten /\ Timers /\ Reads
       /\ SentProjects /\ OneAlertPerGroup

-----------------------------------------------------------------------------
(* Rules, their keys and their groups.                                     *)

(* Alerts with one key are of one group, and those of a project.           *)
LEMMA Groups ==
  ASSUME NEW r \in Rules, NEW s \in Rules
  PROVE  /\ Key(r) = Key(s) => GroupOf(r) = GroupOf(s)
         /\ GroupOf(r) = GroupOf(s) => r.project_name = s.project_name
         /\ Key(r) \in Keys
  <1>1. /\ r.rule_type \in {"metric_avg", "log_count", "event_count"}
        /\ s.rule_type \in {"metric_avg", "log_count", "event_count"}
    BY RulesAssumption DEF Rule
  <1>2. Key(r) \in Keys
    BY DEF Keys, Key
  <1>3. Key(r) = Key(s) => GroupOf(r) = GroupOf(s)
    BY <1>1 DEF Key, createAlertCacheKey, GroupOf
  <1>4. GroupOf(r) = GroupOf(s) => r.project_name = s.project_name
    BY <1>1 DEF GroupOf
  <1> QED BY <1>2, <1>3, <1>4

(* Two alerts in hand have different groups, hence different keys.         *)
LEMMA OnePerGroup ==
  ASSUME Inv, NEW r \in batch, NEW s \in batch
  PROVE  /\ GroupOf(r) = GroupOf(s) => r = s
         /\ Key(r) = Key(s) => r = s
         /\ r \in Rules
  <1>1. r \in Rules /\ s \in Rules
    BY DEF Inv, TypeOK
  <1>2. GroupOf(r) = GroupOf(s) => r = s
    BY DEF Inv, Batches, IsSelection
  <1> QED BY <1>1, <1>2, Groups

(* An order of alerts has each of them once.                               *)
LEMMA OrderOf ==
  ASSUME NEW R \in SUBSET Rules, NEW s \in Orders(R)
  PROVE  /\ s \in Seq(Rules) /\ \A i \in DOMAIN s : s[i] \in R
         /\ \A i, j \in DOMAIN s : s[i] = s[j] => i = j
  <1>1. IsFiniteSet(R) /\ Cardinality(R) \in Nat
    BY RulesAssumption, FS_Subset, FS_CardinalityType
  <1>2. s \in [1 .. Cardinality(R) -> R] /\ \A r \in R : \E i \in DOMAIN s : s[i] = r
    BY DEF Orders
  <1> DEFINE S == 1 .. Cardinality(R)
  <1>3. s \in Surjection(S, R)
    BY <1>2 DEF Surjection
  <1>4. IsFiniteSet(S) /\ Cardinality(S) = Cardinality(R)
    BY <1>1, FS_Interval
  <1>5. s \in Injection(S, R)
    <2> HIDE DEF S
    <2> QED BY <1>3, <1>4, FS_SurjSameCardinalityImpliesInj
  <1>6. DOMAIN s = S /\ s \in Seq(Rules) /\ \A i \in DOMAIN s : s[i] \in R
    BY <1>1, <1>2
  <1>7. \A i, j \in DOMAIN s : s[i] = s[j] => i = j
    <2> HIDE DEF S
    <2> QED BY <1>5, <1>6 DEF Injection, IsInjective
  <1> QED BY <1>6, <1>7

-----------------------------------------------------------------------------
(* The parts of a step.                                                    *)

LEMMA Faults ==
  ASSUME TypeOK, NoFault \/ Fault
  PROVE  faults' \in 0 .. MaxFaults /\ faults' >= faults /\ (Fault => faults' > 0)
  BY FaultAssumption DEF TypeOK, NoFault, Fault

(* What passing the filter does to the history.                            *)
LEMMA PassedHistory ==
  ASSUME TypeOK, NEW R \in SUBSET Rules, NEW u \in BOOLEAN, Passed(R, u)
  PROVE  /\ since' \in [Keys -> 0 .. Cooldown]
         /\ unfiltered' \subseteq Keys
         /\ outcome' \in [Keys -> {"none", "pending", "sent", "lost"}]
         /\ \A r \in R : since'[Key(r)] = 0 /\ outcome'[Key(r)] = "pending"
         /\ \A k \in Keys \ {Key(r) : r \in R} :
              since'[k] = since[k] /\ outcome'[k] = outcome[k]
         /\ u => unfiltered' = unfiltered \cup {Key(r) : r \in R}
         /\ ~ u => unfiltered' = unfiltered \ {Key(r) : r \in R}
  <1>1. {Key(r) : r \in R} \subseteq Keys
    BY DEF Keys, Key
  <1>2. since' = [k \in Keys |-> IF k \in {Key(r) : r \in R} THEN 0 ELSE since[k]]
    BY DEF Passed
  <1>3. outcome' = [k \in Keys |-> IF k \in {Key(r) : r \in R} THEN "pending" ELSE outcome[k]]
    BY DEF Passed
  <1>4. unfiltered' = IF u THEN unfiltered \cup {Key(r) : r \in R}
                           ELSE unfiltered \ {Key(r) : r \in R}
    BY DEF Passed
  <1>5. since' \in [Keys -> 0 .. Cooldown]
    BY <1>2, CooldownAssumption DEF TypeOK
  <1>6. outcome' \in [Keys -> {"none", "pending", "sent", "lost"}]
    BY <1>3 DEF TypeOK
  <1>7. unfiltered' \subseteq Keys
    BY <1>1, <1>4 DEF TypeOK
  <1> QED BY <1>1, <1>2, <1>3, <1>4, <1>5, <1>6, <1>7

(* Settling what is in hand leaves nothing pending.                        *)
LEMMA SettledOutcome ==
  ASSUME Inv, NEW what \in {"sent", "lost"}, Settle(fresh, what)
  PROVE  /\ outcome' \in [Keys -> {"none", "pending", "sent", "lost"}]
         /\ \A k \in Keys :
              outcome'[k] = IF outcome[k] = "pending" THEN what ELSE outcome[k]
  <1>1. \A k \in Keys : outcome[k] = "pending" => k \in {Key(r) : r \in fresh}
    BY DEF Inv, NothingForgotten
  <1>2. outcome' = [k \in Keys |-> IF k \in {Key(r) : r \in fresh} /\ outcome[k] = "pending"
                                   THEN what ELSE outcome[k]]
    BY DEF Settle
  <1> QED BY <1>1, <1>2 DEF Inv, TypeOK

-----------------------------------------------------------------------------
(* Every step keeps the invariant.                                         *)

LEMMA InitHolds == ASSUME Init PROVE Inv
  <1>1. ttl \in [Keys -> 0 .. Cooldown] /\ since \in [Keys -> 0 .. Cooldown]
        /\ outcome \in [Keys -> {"none", "pending", "sent", "lost"}]
        /\ last \in [Rules -> Ages \cup {NoKey}]
    BY CooldownAssumption DEF Init, NoTimestamps
  <1>2. pgHeld \in 0 .. PoolMax /\ faults \in 0 .. MaxFaults /\ sent \in Seq(Rules)
    BY PoolAssumption, FaultAssumption DEF Init
  <1>3. TypeOK
    BY <1>1, <1>2 DEF Init, TypeOK
  <1> QED BY <1>3, CooldownAssumption
          DEF Init, Inv, Batches, Before, NothingForgotten, Timers, Reads, SentProjects,
              OneAlertPerGroup

LEMMA Stopped == NoTimestamps \in [Rules -> Ages \cup {NoKey}]
  BY DEF NoTimestamps

(* A run that ends has nothing in hand.                                    *)
LEMMA RunEnds ==
  ASSUME TypeOK, EndRun
  PROVE  Batches' /\ Reads' /\ SentProjects'
  BY DEF EndRun, Batches, Reads, SentProjects, Before

LEMMA MinuteKeeps == ASSUME Inv, Minute PROVE Inv'
  <1> USE DEF Inv
  <1>1. /\ ttl' \in [Keys -> 0 .. Cooldown] /\ since' \in [Keys -> 0 .. Cooldown]
    BY CooldownAssumption DEF Minute, TypeOK
  <1>2. last' \in [Rules -> Ages \cup {NoKey}]
    BY CooldownAssumption DEF Minute, TypeOK, Ages
  <1>3. TypeOK'
    BY <1>1, <1>2 DEF Minute, TypeOK, db
  <1>4. Timers'
    <2> SUFFICES ASSUME NEW k \in Keys, k \notin unfiltered, since'[k] < Cooldown
                 PROVE  ttl'[k] = Cooldown - since'[k]
      BY DEF Timers, Minute
    <2>1. since[k] \in 0 .. Cooldown /\ ttl[k] \in 0 .. Cooldown
      BY DEF TypeOK
    <2>2. since'[k] = since[k] + 1 /\ since[k] < Cooldown
      BY <2>1, CooldownAssumption DEF Minute
    <2>3. ttl[k] = Cooldown - since[k]
      BY <2>2 DEF Timers
    <2> QED BY <2>1, <2>2, <2>3, CooldownAssumption DEF Minute
  <1>5. Reads'
    <2> SUFFICES ASSUME NEW r \in left, Key(r) \notin unfiltered, since'[Key(r)] # Cooldown
                 PROVE  last'[r] # NoKey /\ last'[r] <= since'[Key(r)]
      BY DEF Reads, Minute
    <2>1. r \in Rules /\ Key(r) \in Keys
      BY Groups DEF TypeOK
    <2>2. since[Key(r)] \in 0 .. Cooldown /\ last[r] \in Ages \cup {NoKey}
      BY <2>1 DEF TypeOK
    <2>3. since'[Key(r)] = since[Key(r)] + 1 /\ since[Key(r)] # Cooldown
      BY <2>1, <2>2, CooldownAssumption DEF Minute
    <2>4. last[r] # NoKey /\ last[r] <= since[Key(r)]
      BY <2>3 DEF Reads
    <2>5. last[r] \in 0 .. Cooldown
      BY <2>2, <2>3, <2>4, CooldownAssumption DEF Ages
    <2>6. last'[r] = last[r] + 1
      BY <2>1, <2>5 DEF Minute
    <2> QED BY <2>2, <2>3, <2>4, <2>5, <2>6, NoKeyAssumption, CooldownAssumption
  <1>6. NothingForgotten'
    <2>1. \A k \in Keys : ttl'[k] > 0 => ttl[k] > 0
      BY CooldownAssumption DEF Minute, TypeOK
    <2> QED BY <2>1 DEF Minute, NothingForgotten
  <1>7. Batches' /\ SentProjects' /\ OneAlertPerGroup'
    BY DEF Minute, Batches, SentProjects, OneAlertPerGroup
  <1> QED BY <1>3, <1>4, <1>5, <1>6, <1>7

LEMMA ReadingsChangeKeeps == ASSUME Inv, NEW p \in Projects, ReadingsChange(p) PROVE Inv'
  <1> USE DEF Inv, ReadingsChange, run, history
  <1>1. TypeOK'
    <2>1. PICK w \in Windows[p] \ {window[p]} : window' = [window EXCEPT ![p] = w]
      OBVIOUS
    <2>2. DOMAIN window' = Projects /\ \A q \in Projects : window'[q] \in Windows[q]
      BY <2>1 DEF TypeOK
    <2> QED BY <2>2 DEF TypeOK
  <1>2. Batches' /\ NothingForgotten' /\ Timers'
    BY DEF Batches, NothingForgotten, Timers
  <1>3. Reads' /\ SentProjects' /\ OneAlertPerGroup'
    BY DEF Reads, SentProjects, OneAlertPerGroup
  <1> QED BY <1>1, <1>2, <1>3

LEMMA SwitchKeeps == ASSUME Inv, NEW p \in Projects, Switch(p) PROVE Inv'
  <1> USE DEF Inv, Switch, run, history
  <1>1. TypeOK'
    BY DEF TypeOK
  <1>2. Batches' /\ NothingForgotten' /\ Timers'
    BY DEF Batches, NothingForgotten, Timers
  <1>3. Reads' /\ SentProjects' /\ OneAlertPerGroup'
    BY DEF Reads, SentProjects, OneAlertPerGroup
  <1> QED BY <1>1, <1>2, <1>3

LEMMA TimerFiresKeeps == ASSUME Inv, TimerFires PROVE Inv'
  <1> USE DEF Inv, TimerFires, db, run, history
  <1>1. TypeOK'
    <2>1. sent' \in Seq(Rules)
      OBVIOUS
    <2>2. due' \in BOOLEAN
      BY Zenon
    <2> QED BY <2>1, <2>2 DEF TypeOK
  <1>2. Batches' /\ NothingForgotten' /\ Timers'
    BY DEF Batches, NothingForgotten, Timers, Before
  <1>3. Reads' /\ SentProjects' /\ OneAlertPerGroup'
    BY DEF Reads, SentProjects, OneAlertPerGroup
  <1> QED BY <1>1, <1>2, <1>3

(* A failure at a point where nothing is in hand.                          *)
LEMMA FailsEarly ==
  ASSUME Inv, pc \in {"connect", "list", "project"}, Fault, EndRun,
         UNCHANGED <<db, ttl, pgHeld, due, sent, history>>
  PROVE  Inv'
  <1> USE DEF Inv, db, history
  <1>1. TypeOK'
    BY Faults, Stopped DEF EndRun, TypeOK
  <1>2. Batches' /\ Reads' /\ SentProjects'
    BY RunEnds
  <1>3. fresh = {}
    BY DEF Batches, Before
  <1>4. faults' > 0
    BY Faults
  <1>5. NothingForgotten'
    BY <1>3, <1>4 DEF NothingForgotten
  <1>6. Timers' /\ OneAlertPerGroup'
    BY DEF Timers, OneAlertPerGroup
  <1> QED BY <1>1, <1>2, <1>5, <1>6

LEMMA PgConnectKeeps == ASSUME Inv, PgConnect PROVE Inv'
  <1>1. CASE pgHeld' = pgHeld + 1 /\ pc' = "list" /\ NoFault /\ UNCHANGED run
    <2> USE <1>1 DEF Inv, PgConnect, db, run, history, NoFault
    <2>1. pgHeld' \in 0 .. PoolMax
      BY PoolAssumption DEF TypeOK
    <2>2. TypeOK'
      BY <2>1 DEF TypeOK
    <2>3. Batches' /\ NothingForgotten' /\ Timers'
      BY DEF Batches, NothingForgotten, Timers, Before
    <2>4. Reads' /\ SentProjects' /\ OneAlertPerGroup'
      BY DEF Reads, SentProjects, OneAlertPerGroup
    <2> QED BY <2>2, <2>3, <2>4
  <1>2. CASE Fault /\ EndRun /\ UNCHANGED pgHeld
    BY <1>2, FailsEarly DEF PgConnect
  <1> QED BY <1>1, <1>2 DEF PgConnect

LEMMA ListProjectsKeeps == ASSUME Inv, ListProjects PROVE Inv'
  <1>1. CASE /\ pc' = "project" /\ todo' = active /\ NoFault
             /\ UNCHANGED <<rules, triggered, batch, left, last, fresh>>
    <2> USE <1>1 DEF Inv, ListProjects, db, history, NoFault
    <2>1. TypeOK'
      BY DEF TypeOK
    <2>2. Batches' /\ NothingForgotten' /\ Timers'
      BY DEF Batches, NothingForgotten, Timers, Before
    <2>3. Reads' /\ SentProjects' /\ OneAlertPerGroup'
      BY DEF Reads, SentProjects, OneAlertPerGroup
    <2> QED BY <2>1, <2>2, <2>3
  <1>2. CASE Fault /\ EndRun
    BY <1>2, FailsEarly DEF ListProjects
  <1> QED BY <1>1, <1>2 DEF ListProjects

LEMMA NextProjectKeeps == ASSUME Inv, NextProject PROVE Inv'
  <1> USE DEF NextProject, db, history
  <1>1. ASSUME NEW p \in todo,
               todo' = todo \ {p}, rules' = {r \in Rules : r.project_name = p},
               triggered' = {}, pc' = IF rules' = {} THEN "project" ELSE "evaluate",
               NoFault, UNCHANGED <<batch, left, last, fresh>>
        PROVE  Inv'
    <2> USE <1>1 DEF Inv, NoFault
    <2>1. TypeOK'
      BY DEF TypeOK
    <2>2. Batches' /\ NothingForgotten' /\ Timers'
      BY DEF Batches, NothingForgotten, Timers, Before
    <2>3. SentProjects'
      BY DEF SentProjects
    <2>4. Reads' /\ OneAlertPerGroup'
      BY DEF Reads, OneAlertPerGroup
    <2> QED BY <2>1, <2>2, <2>3, <2>4
  <1>2. CASE todo = {} /\ EndRun /\ NoFault
    <2> USE DEF Inv, NoFault
    <2>1. TypeOK'
      BY <1>2, Stopped DEF EndRun, TypeOK
    <2>2. Batches' /\ Reads' /\ SentProjects'
      BY <1>2, RunEnds
    <2>3. fresh = {} /\ fresh' = {}
      BY <1>2 DEF Batches, Before, EndRun
    <2>4. NothingForgotten' /\ Timers' /\ OneAlertPerGroup'
      BY <1>2, <2>3 DEF NothingForgotten, Timers, OneAlertPerGroup
    <2> QED BY <2>1, <2>2, <2>4
  <1>3. CASE Fault /\ EndRun
    BY <1>3, FailsEarly
  <1> QED BY <1>1, <1>2, <1>3

LEMMA ProcessAlertKeeps == ASSUME Inv, ProcessAlert PROVE Inv'
  <1>1. PICK r \in rules :
          /\ rules' = rules \ {r}
          /\ triggered' \in {triggered, triggered \cup {r}}
          /\ NoFault \/ Fault
    BY DEF ProcessAlert
  <1>2. faults' \in 0 .. MaxFaults /\ faults' >= faults
    BY <1>1, Faults DEF Inv
  <1> USE DEF Inv, ProcessAlert, db, history
  <1>3. TypeOK'
    BY <1>1, <1>2 DEF TypeOK
  <1>4. Batches'
    BY <1>1 DEF Batches, Before
  <1>5. NothingForgotten'
    <2>1. faults > 0 => faults' > 0
      BY <1>2, FaultAssumption DEF TypeOK
    <2> QED BY <2>1 DEF NothingForgotten
  <1>6. SentProjects'
    BY <1>1 DEF SentProjects
  <1>7. Timers' /\ Reads' /\ OneAlertPerGroup'
    BY DEF Timers, Reads, OneAlertPerGroup
  <1> QED BY <1>3, <1>4, <1>5, <1>6, <1>7

LEMMA SelectAlertsKeeps == ASSUME Inv, SelectAlerts PROVE Inv'
  <1> USE DEF Inv, SelectAlerts, db, history
  <1>1. TypeOK'
    BY DEF TypeOK
  <1>2. Batches'
    <2>1. batch = {} /\ fresh = {} /\ left = {}
      BY DEF Batches, Before
    <2>2. IsSelection(batch', triggered') /\ batch' \subseteq triggered'
      BY DEF IsSelection
    <2> QED BY <2>1, <2>2 DEF Batches, Before
  <1>3. NothingForgotten'
    <2>1. fresh = {}
      BY DEF Batches, Before
    <2> QED BY <2>1 DEF NothingForgotten
  <1>4. SentProjects'
    BY DEF SentProjects
  <1>5. Timers' /\ Reads' /\ OneAlertPerGroup'
    BY DEF Timers, Reads, OneAlertPerGroup
  <1> QED BY <1>1, <1>2, <1>3, <1>4, <1>5

(* catch: return alerts.                                                   *)
LEMMA ReturnAllKeeps ==
  ASSUME Inv, pc \in {"filter", "cool"}, Fault, ReturnAll,
         ttl' \in [Keys -> 0 .. Cooldown],
         \A k \in Keys : ttl'[k] # ttl[k] => \E r \in batch : Key(r) = k,
         UNCHANGED <<db, pgHeld, due, todo, rules, triggered, batch, sent>>
  PROVE  Inv'
  <1> USE DEF db
  <1>1. batch \in SUBSET Rules
    BY DEF Inv, TypeOK
  <1>2. Passed(batch, TRUE) /\ TypeOK
    BY DEF ReturnAll, Inv
  <1>3. /\ since' \in [Keys -> 0 .. Cooldown]
        /\ unfiltered' \subseteq Keys
        /\ outcome' \in [Keys -> {"none", "pending", "sent", "lost"}]
        /\ \A r \in batch : since'[Key(r)] = 0 /\ outcome'[Key(r)] = "pending"
        /\ \A k \in Keys \ {Key(r) : r \in batch} :
             since'[k] = since[k] /\ outcome'[k] = outcome[k]
        /\ unfiltered' = unfiltered \cup {Key(r) : r \in batch}
    BY <1>1, <1>2, PassedHistory
  <1>4. faults' \in 0 .. MaxFaults /\ faults' > 0
    BY Faults DEF Inv
  <1>5. TypeOK'
    BY <1>3, <1>4, Stopped DEF Inv, TypeOK, ReturnAll
  <1>6. Batches'
    BY DEF Inv, Batches, ReturnAll, Before
  <1>7. NothingForgotten'
    <2> SUFFICES ASSUME NEW k \in Keys
                 PROVE  /\ outcome'[k] = "pending" => \E r \in fresh' : Key(r) = k
                        /\ outcome'[k] = "lost" => faults' > 0
                        /\ ttl'[k] > 0 => outcome'[k] # "none"
      BY DEF NothingForgotten
    <2>1. CASE k \in {Key(r) : r \in batch}
      BY <2>1, <1>3 DEF ReturnAll
    <2>2. CASE k \notin {Key(r) : r \in batch}
      <3>1. ttl'[k] = ttl[k] /\ outcome'[k] = outcome[k]
        BY <2>2, <1>3
      <3>2. outcome[k] # "pending"
        BY <2>2 DEF Inv, NothingForgotten, Batches
      <3> QED BY <3>1, <3>2, <1>4 DEF Inv, NothingForgotten
    <2> QED BY <2>1, <2>2
  <1>8. Timers'
    <2> SUFFICES ASSUME NEW k \in Keys, k \notin unfiltered', since'[k] < Cooldown
                 PROVE  ttl'[k] = Cooldown - since'[k]
      BY DEF Timers
    <2>1. k \notin unfiltered /\ k \notin {Key(r) : r \in batch}
      BY <1>3
    <2>2. ttl'[k] = ttl[k] /\ since'[k] = since[k]
      BY <2>1, <1>3
    <2> QED BY <2>1, <2>2 DEF Inv, Timers
  <1>9. Reads' /\ SentProjects' /\ OneAlertPerGroup'
    BY DEF Inv, Reads, SentProjects, OneAlertPerGroup, ReturnAll
  <1> QED BY <1>5, <1>6, <1>7, <1>8, <1>9 DEF Inv

LEMMA ReadCooldownsKeeps == ASSUME Inv, ReadCooldowns PROVE Inv'
  <1> USE DEF ReadCooldowns, db, history
  <1>1. CASE /\ last' = [r \in Rules |-> IF r \in batch /\ ttl[Key(r)] > 0
                                         THEN Cooldown - ttl[Key(r)] ELSE NoKey]
             /\ left' = batch /\ pc' = "cool"
             /\ NoFault /\ UNCHANGED <<fresh, history>>
    <2> USE <1>1 DEF Inv, NoFault
    <2>1. last' \in [Rules -> Ages \cup {NoKey}]
      <3>1. \A r \in Rules : ttl[Key(r)] \in 0 .. Cooldown
        BY Groups DEF TypeOK
      <3> QED BY <3>1, CooldownAssumption DEF Ages
    <2>2. TypeOK'
      BY <2>1 DEF TypeOK
    <2>3. Batches'
      BY DEF Batches, Before
    <2>4. Reads'
      <3> SUFFICES ASSUME NEW r \in batch, Key(r) \notin unfiltered, since[Key(r)] # Cooldown
                   PROVE  last'[r] # NoKey /\ last'[r] <= since[Key(r)]
        BY DEF Reads
      <3>1. r \in Rules /\ Key(r) \in Keys
        BY Groups DEF TypeOK
      <3>2. since[Key(r)] \in 0 .. Cooldown
        BY <3>1 DEF TypeOK
      <3>3. ttl[Key(r)] = Cooldown - since[Key(r)]
        BY <3>1, <3>2, CooldownAssumption DEF Timers
      <3>4. last'[r] = since[Key(r)]
        BY <3>1, <3>2, <3>3, CooldownAssumption
      <3> QED BY <3>2, <3>4, NoKeyAssumption
    <2>5. NothingForgotten' /\ Timers' /\ SentProjects' /\ OneAlertPerGroup'
      BY DEF NothingForgotten, Timers, SentProjects, OneAlertPerGroup
    <2> QED BY <2>2, <2>3, <2>4, <2>5
  <1>2. CASE Fault /\ ReturnAll /\ UNCHANGED ttl
    <2>1. ttl' \in [Keys -> 0 .. Cooldown]
      BY <1>2 DEF Inv, TypeOK
    <2> QED BY <2>1, <1>2, ReturnAllKeeps
  <1> QED BY <1>1, <1>2

(* The alert of a turn of the loop.                                        *)
LEMMA InHand ==
  ASSUME Inv, NEW r \in left
  PROVE  /\ r \in Rules /\ r \in batch /\ Key(r) \in Keys
         /\ \A s \in batch : Key(s) = Key(r) => s = r
  BY OnePerGroup, Groups DEF Inv, Batches

LEMMA SkipKeeps ==
  ASSUME Inv, NEW r \in left, AdmitAlert(r), NoFault,
         UNCHANGED <<ttl, fresh, history>>,
         left' = left \ {r}, last' = [last EXCEPT ![r] = NoKey],
         pc' = IF left' = {} THEN "publish" ELSE "cool"
  PROVE  Inv'
  <1> USE DEF Inv, AdmitAlert, db, history, NoFault
  <1>1. last' \in [Rules -> Ages \cup {NoKey}]
    BY DEF TypeOK
  <1>2. TypeOK'
    BY <1>1 DEF TypeOK
  <1>3. Batches' /\ NothingForgotten' /\ Timers'
    BY DEF Batches, NothingForgotten, Timers, Before
  <1>4. Reads'
    BY DEF Reads, TypeOK
  <1>5. SentProjects' /\ OneAlertPerGroup'
    BY DEF SentProjects, OneAlertPerGroup
  <1> QED BY <1>2, <1>3, <1>4, <1>5

LEMMA PassKeeps ==
  ASSUME Inv, NEW r \in left, pc = "cool", NoFault,
         SetEx(r), fresh' = fresh \cup {r}, Passed({r}, FALSE),
         left' = left \ {r}, last' = [last EXCEPT ![r] = NoKey],
         pc' = IF left' = {} THEN "publish" ELSE "cool",
         UNCHANGED <<db, pgHeld, due, todo, rules, triggered, batch, sent>>
  PROVE  Inv'
  <1> USE DEF db, NoFault
  <1>1. /\ r \in Rules /\ r \in batch /\ Key(r) \in Keys
        /\ \A s \in batch : Key(s) = Key(r) => s = r
    BY InHand
  <1>2. {r} \in SUBSET Rules /\ TypeOK
    BY <1>1 DEF Inv
  <1>3. /\ since' \in [Keys -> 0 .. Cooldown]
        /\ unfiltered' \subseteq Keys
        /\ outcome' \in [Keys -> {"none", "pending", "sent", "lost"}]
        /\ \A q \in {r} : since'[Key(q)] = 0 /\ outcome'[Key(q)] = "pending"
        /\ \A k \in Keys \ {Key(q) : q \in {r}} :
             since'[k] = since[k] /\ outcome'[k] = outcome[k]
        /\ unfiltered' = unfiltered \ {Key(q) : q \in {r}}
    BY <1>2, PassedHistory
  <1>4. ttl' \in [Keys -> 0 .. Cooldown] /\ ttl'[Key(r)] = Cooldown
        /\ \A k \in Keys \ {Key(r)} : ttl'[k] = ttl[k]
    BY <1>1, CooldownAssumption DEF SetEx, Inv, TypeOK
  <1>5. last' \in [Rules -> Ages \cup {NoKey}] /\ \A q \in Rules \ {r} : last'[q] = last[q]
    BY DEF Inv, TypeOK
  <1>6. TypeOK'
    BY <1>1, <1>3, <1>4, <1>5 DEF Inv, TypeOK
  <1>7. Batches'
    BY <1>1 DEF Inv, Batches, Before
  <1>8. NothingForgotten'
    BY <1>1, <1>3, <1>4 DEF Inv, NothingForgotten
  <1>9. Timers'
    BY <1>1, <1>3, <1>4 DEF Inv, Timers
  <1>10. Reads'
    <2> SUFFICES ASSUME NEW q \in left', Key(q) \notin unfiltered', since'[Key(q)] # Cooldown
                 PROVE  last'[q] # NoKey /\ last'[q] <= since'[Key(q)]
      BY DEF Reads
    <2>1. q \in left /\ q # r
      OBVIOUS
    <2>2. q \in Rules /\ q \in batch /\ Key(q) \in Keys
      BY <2>1, InHand
    <2>3. Key(q) # Key(r)
      BY <1>1, <2>1, <2>2
    <2>4. since'[Key(q)] = since[Key(q)] /\ Key(q) \notin unfiltered /\ last'[q] = last[q]
      BY <1>3, <1>5, <2>1, <2>2, <2>3
    <2> QED BY <2>1, <2>4 DEF Inv, Reads
  <1>11. SentProjects' /\ OneAlertPerGroup'
    BY DEF Inv, SentProjects, OneAlertPerGroup
  <1> QED BY <1>6, <1>7, <1>8, <1>9, <1>10, <1>11 DEF Inv

LEMMA AdmitAlertKeeps == ASSUME Inv, NEW r \in Rules, AdmitAlert(r) PROVE Inv'
  <1>1. CASE /\ CoolingDown(r) /\ UNCHANGED ttl /\ UNCHANGED <<fresh, history>>
             /\ left' = left \ {r} /\ last' = [last EXCEPT ![r] = NoKey]
             /\ pc' = IF left' = {} THEN "publish" ELSE "cool"
             /\ NoFault
    BY <1>1, SkipKeeps DEF AdmitAlert
  <1>2. CASE /\ ~ CoolingDown(r)
             /\ SetEx(r) /\ fresh' = fresh \cup {r} /\ Passed({r}, FALSE)
             /\ left' = left \ {r} /\ last' = [last EXCEPT ![r] = NoKey]
             /\ pc' = IF left' = {} THEN "publish" ELSE "cool"
             /\ NoFault
    BY <1>2, PassKeeps DEF AdmitAlert
  <1>3. CASE /\ ~ CoolingDown(r) /\ Fault
             /\ SetEx(r) \/ UNCHANGED ttl
             /\ ReturnAll
    <2>1. r \in batch
      BY DEF AdmitAlert, Inv, Batches
    <2>2. /\ ttl' \in [Keys -> 0 .. Cooldown]
          /\ \A k \in Keys : ttl'[k] # ttl[k] => \E q \in batch : Key(q) = k
      BY <1>3, <2>1, CooldownAssumption DEF SetEx, Inv, TypeOK
    <2> QED BY <1>3, <2>2, ReturnAllKeeps DEF AdmitAlert
  <1> QED BY <1>1, <1>2, <1>3 DEF AdmitAlert

(* The alerts of one project are published after those of others.          *)
LEMMA Published ==
  ASSUME Inv, pc = "publish", NEW s \in Orders(fresh), sent' = sent \o s
  PROVE  /\ sent' \in Seq(Rules)
         /\ OneAlertPerGroup'
         /\ \A i \in DOMAIN sent' : sent'[i].project_name \notin todo
  <1>1. fresh \subseteq Rules /\ fresh \subseteq batch /\ fresh \subseteq triggered
        /\ sent \in Seq(Rules)
    BY DEF Inv, TypeOK, Batches
  <1>2. /\ s \in Seq(Rules) /\ \A i \in DOMAIN s : s[i] \in fresh
        /\ \A i, j \in DOMAIN s : s[i] = s[j] => i = j
    BY <1>1, OrderOf
  <1>3. sent' \in Seq(Rules) /\ Len(sent') = Len(sent) + Len(s)
        /\ \A i \in 1 .. Len(sent') :
             sent'[i] = IF i <= Len(sent) THEN sent[i] ELSE s[i - Len(sent)]
    BY <1>1, <1>2
  <1>4. \A i \in DOMAIN sent : sent[i] \in Rules /\ sent[i].project_name \notin todo
    BY <1>1 DEF Inv, SentProjects
  <1>5. \A i \in DOMAIN s : s[i] \in Rules /\ s[i] \in batch /\ s[i].project_name \notin todo
    BY <1>1, <1>2 DEF Inv, SentProjects
  <1>6. \A i \in DOMAIN sent, j \in DOMAIN s : GroupOf(sent[i]) # GroupOf(s[j])
    <2> SUFFICES ASSUME NEW i \in DOMAIN sent, NEW j \in DOMAIN s
                 PROVE  GroupOf(sent[i]) # GroupOf(s[j])
      OBVIOUS
    <2>1. sent[i].project_name # s[j].project_name
      BY <1>1, <1>2 DEF Inv, SentProjects
    <2> QED BY <2>1, <1>4, <1>5, Groups
  <1>7. \A i, j \in DOMAIN s : GroupOf(s[i]) = GroupOf(s[j]) => i = j
    BY <1>2, <1>5, OnePerGroup
  <1>8. \A i, j \in DOMAIN sent : GroupOf(sent[i]) = GroupOf(sent[j]) => i = j
    BY DEF Inv, OneAlertPerGroup
  <1>9. OneAlertPerGroup'
    <2> SUFFICES ASSUME NEW i \in DOMAIN sent', NEW j \in DOMAIN sent',
                        GroupOf(sent'[i]) = GroupOf(sent'[j])
                 PROVE  i = j
      BY DEF OneAlertPerGroup
    <2>1. i \in 1 .. Len(sent') /\ j \in 1 .. Len(sent')
      BY <1>3
    <2>2. CASE i <= Len(sent) /\ j <= Len(sent)
      BY <2>1, <2>2, <1>1, <1>3, <1>8
    <2>3. CASE i <= Len(sent) /\ ~ (j <= Len(sent))
      <3>1. i \in DOMAIN sent /\ j - Len(sent) \in DOMAIN s
        BY <2>1, <2>3, <1>1, <1>2, <1>3
      <3> QED BY <2>1, <2>3, <3>1, <1>3, <1>6
    <2>4. CASE ~ (i <= Len(sent)) /\ j <= Len(sent)
      <3>1. j \in DOMAIN sent /\ i - Len(sent) \in DOMAIN s
        BY <2>1, <2>4, <1>1, <1>2, <1>3
      <3> QED BY <2>1, <2>4, <3>1, <1>3, <1>6
    <2>5. CASE ~ (i <= Len(sent)) /\ ~ (j <= Len(sent))
      <3>1. i - Len(sent) \in DOMAIN s /\ j - Len(sent) \in DOMAIN s
        BY <2>1, <2>5, <1>1, <1>2, <1>3
      <3>2. i - Len(sent) = j - Len(sent)
        BY <2>1, <2>5, <3>1, <1>3, <1>7
      <3> QED BY <2>1, <3>2, <1>1
    <2> QED BY <2>2, <2>3, <2>4, <2>5
  <1>10. \A i \in DOMAIN sent' : sent'[i].project_name \notin todo
    <2> SUFFICES ASSUME NEW i \in 1 .. Len(sent')
                 PROVE  sent'[i].project_name \notin todo
      BY <1>3
    <2>1. CASE i <= Len(sent)
      BY <2>1, <1>1, <1>3, <1>4
    <2>2. CASE ~ (i <= Len(sent))
      <3>1. i - Len(sent) \in DOMAIN s
        BY <2>2, <1>1, <1>2, <1>3
      <3> QED BY <2>2, <3>1, <1>3, <1>5
    <2> QED BY <2>1, <2>2
  <1> QED BY <1>3, <1>9, <1>10

LEMMA PublishAlertsKeeps == ASSUME Inv, PublishAlerts PROVE Inv'
  <1>1. CASE /\ \E s \in Orders(fresh) : sent' = sent \o s
             /\ Settle(fresh, "sent")
             /\ pc' = "project" /\ fresh' = {} /\ batch' = {} /\ NoFault
    <2>1. sent' \in Seq(Rules) /\ OneAlertPerGroup'
          /\ \A i \in DOMAIN sent' : sent'[i].project_name \notin todo
      BY <1>1, Published DEF PublishAlerts
    <2>2. /\ outcome' \in [Keys -> {"none", "pending", "sent", "lost"}]
          /\ \A k \in Keys : outcome'[k] = IF outcome[k] = "pending" THEN "sent" ELSE outcome[k]
      BY <1>1, SettledOutcome
    <2> USE <1>1 DEF PublishAlerts, db, NoFault
    <2>3. TypeOK'
      BY <2>1, <2>2 DEF Inv, TypeOK
    <2>4. Batches'
      BY DEF Inv, Batches, Before
    <2>5. NothingForgotten'
      BY <2>2 DEF Inv, NothingForgotten
    <2>6. SentProjects'
      BY <2>1 DEF SentProjects
    <2>7. Timers' /\ Reads'
      BY DEF Inv, Timers, Reads
    <2> QED BY <2>1, <2>3, <2>4, <2>5, <2>6, <2>7 DEF Inv
  <1>2. ASSUME fresh # {}, Fault, pc' = "fallback", UNCHANGED <<fresh, batch>>,
               \/ \E s \in Orders(fresh) : sent' = sent \o s /\ Settle(fresh, "sent")
               \/ UNCHANGED <<sent, outcome>>
        PROVE  Inv'
    <2>1. sent' \in Seq(Rules) /\ OneAlertPerGroup'
          /\ \A i \in DOMAIN sent' : sent'[i].project_name \notin todo
      <3>1. CASE \E s \in Orders(fresh) : sent' = sent \o s
        BY <3>1, Published DEF PublishAlerts
      <3>2. CASE UNCHANGED sent
        BY <3>2 DEF Inv, TypeOK, OneAlertPerGroup, SentProjects, PublishAlerts
      <3> QED BY <1>2, <3>1, <3>2
    <2>2. /\ outcome' \in [Keys -> {"none", "pending", "sent", "lost"}]
          /\ \A k \in Keys : \/ outcome'[k] = outcome[k]
                             \/ outcome[k] = "pending" /\ outcome'[k] = "sent"
      <3>1. CASE Settle(fresh, "sent")
        BY <3>1, SettledOutcome
      <3>2. CASE UNCHANGED outcome
        BY <3>2 DEF Inv, TypeOK
      <3> QED BY <1>2, <3>1, <3>2
    <2>3. faults' \in 0 .. MaxFaults /\ faults' > 0
      BY <1>2, Faults DEF Inv
    <2> USE <1>2 DEF PublishAlerts, db
    <2>4. TypeOK'
      BY <2>1, <2>2, <2>3 DEF Inv, TypeOK
    <2>5. Batches'
      BY <2>3 DEF Inv, Batches, Before
    <2>6. NothingForgotten'
      BY <2>2, <2>3 DEF Inv, NothingForgotten
    <2>7. SentProjects'
      BY <2>1 DEF Inv, SentProjects
    <2>8. Timers' /\ Reads'
      BY DEF Inv, Timers, Reads
    <2> QED BY <2>1, <2>4, <2>5, <2>6, <2>7, <2>8 DEF Inv
  <1> QED BY <1>1, <1>2 DEF PublishAlerts

LEMMA PublishIndividuallyKeeps == ASSUME Inv, PublishIndividually PROVE Inv'
  <1>1. /\ outcome' \in [Keys -> {"none", "pending", "sent", "lost"}]
        /\ \A k \in Keys : outcome'[k] = IF outcome[k] = "pending" THEN "lost" ELSE outcome[k]
    BY SettledOutcome DEF PublishIndividually
  <1>2. faults > 0
    BY DEF PublishIndividually, Inv, Batches
  <1> USE DEF PublishIndividually, db, Inv
  <1>3. TypeOK'
    BY <1>1 DEF TypeOK
  <1>4. Batches'
    BY DEF Batches, Before
  <1>5. NothingForgotten'
    BY <1>1, <1>2 DEF NothingForgotten
  <1>6. SentProjects' /\ OneAlertPerGroup'
    BY DEF SentProjects, OneAlertPerGroup
  <1>7. Timers' /\ Reads'
    BY DEF Timers, Reads
  <1> QED BY <1>3, <1>4, <1>5, <1>6, <1>7

(* A run that hangs has nothing in hand, one that dies may lose alerts.    *)
LEMMA NewProcessKeeps ==
  ASSUME Inv, NewProcess, (Hangs /\ NoFault) \/ Fault
  PROVE  Inv'
  <1> USE DEF NewProcess, db
  <1>1. /\ outcome' \in [Keys -> {"none", "pending", "sent", "lost"}]
        /\ \A k \in Keys : outcome'[k] = IF outcome[k] = "pending" THEN "lost" ELSE outcome[k]
    BY SettledOutcome
  <1>2. Batches' /\ Reads' /\ SentProjects'
    BY RunEnds DEF Inv
  <1>3. faults' \in 0 .. MaxFaults /\ faults' >= faults /\ (Fault => faults' > 0)
    BY Faults DEF Inv
  <1>4. pgHeld' \in 0 .. PoolMax
    BY PoolAssumption
  <1>5. TypeOK'
    BY <1>1, <1>3, <1>4, Stopped DEF Inv, TypeOK, EndRun
  <1>6. NothingForgotten'
    <2>1. \A k \in Keys : outcome[k] = "pending" => faults' > 0
      BY <1>3 DEF Inv, NothingForgotten, Batches, Hangs, Before
    <2>2. faults > 0 => faults' > 0
      BY <1>3, FaultAssumption DEF Inv, TypeOK
    <2> QED BY <1>1, <2>1, <2>2 DEF Inv, NothingForgotten
  <1>7. Timers' /\ OneAlertPerGroup'
    BY DEF Inv, Timers, OneAlertPerGroup
  <1> QED BY <1>2, <1>5, <1>6, <1>7 DEF Inv

LEMMA StutterKeeps == ASSUME Inv, UNCHANGED vars PROVE Inv'
  <1> USE DEF Inv, vars
  <1>1. TypeOK'
    BY DEF TypeOK
  <1>2. Batches' /\ NothingForgotten' /\ Timers'
    BY DEF Batches, NothingForgotten, Timers
  <1>3. Reads' /\ SentProjects' /\ OneAlertPerGroup'
    BY DEF Reads, SentProjects, OneAlertPerGroup
  <1> QED BY <1>1, <1>2, <1>3

LEMMA NextKeeps == ASSUME Inv, [Next]_vars PROVE Inv'
  <1>1. CASE Step
    BY <1>1, TimerFiresKeeps, PgConnectKeeps, ListProjectsKeeps, NextProjectKeeps,
       ProcessAlertKeeps, SelectAlertsKeeps, ReadCooldownsKeeps, AdmitAlertKeeps,
       PublishAlertsKeeps, PublishIndividuallyKeeps DEF Step
  <1>2. CASE HostTimeout \/ HostCrash
    BY <1>2, NewProcessKeeps DEF HostTimeout, HostCrash
  <1>3. CASE Minute \/ \E p \in Projects : ReadingsChange(p) \/ Switch(p)
    BY <1>3, MinuteKeeps, ReadingsChangeKeeps, SwitchKeeps
  <1>4. CASE UNCHANGED vars
    BY <1>4, StutterKeeps
  <1> QED BY <1>1, <1>2, <1>3, <1>4 DEF Next

-----------------------------------------------------------------------------
(* A step respects the cooldowns.                                          *)

Respects ==
  \A r \in Rules :
    (r \in fresh' \ fresh /\ Key(r) \notin unfiltered')
      => since[Key(r)] = Cooldown \/ Key(r) \in unfiltered

(* The catch marks all that it lets pass as unchecked.                     *)
LEMMA ReturnAllRespects ==
  ASSUME Inv, ReturnAll
  PROVE  Respects
  <1>1. batch \in SUBSET Rules /\ Passed(batch, TRUE) /\ TypeOK
    BY DEF Inv, TypeOK, ReturnAll
  <1>2. unfiltered' = unfiltered \cup {Key(r) : r \in batch}
    BY <1>1, PassedHistory
  <1> QED BY <1>2 DEF Respects, ReturnAll

(* What passes was not read as cooling down, and what was read is no older *)
(* than the last alert.                                                    *)
LEMMA AdmitAlertRespects == ASSUME Inv, NEW r \in Rules, AdmitAlert(r) PROVE Respects
  <1>1. CASE UNCHANGED fresh
    BY <1>1 DEF Respects
  <1>2. CASE ~ CoolingDown(r) /\ fresh' = fresh \cup {r} /\ Passed({r}, FALSE)
    <2>1. r \in left /\ Key(r) \in Keys
      BY Groups DEF AdmitAlert
    <2>2. since[Key(r)] \in 0 .. Cooldown /\ last[r] \in Ages \cup {NoKey}
      BY <2>1 DEF Inv, TypeOK
    <2>3. Key(r) \notin unfiltered /\ since[Key(r)] # Cooldown
            => last[r] # NoKey /\ last[r] <= since[Key(r)]
      BY <2>1 DEF Inv, Reads
    <2>4. Key(r) \notin unfiltered => since[Key(r)] = Cooldown
      BY <1>2, <2>2, <2>3, CooldownAssumption DEF CoolingDown, Ages
    <2> QED BY <1>2, <2>4 DEF Respects
  <1>3. CASE ReturnAll
    BY <1>3, ReturnAllRespects
  <1> QED BY <1>1, <1>2, <1>3 DEF AdmitAlert, history

LEMMA NextRespects == ASSUME Inv, [Next]_vars PROVE [Respects]_vars
  <1>1. CASE fresh' \subseteq fresh
    BY <1>1 DEF Respects
  <1>2. CASE ReadCooldowns
    BY <1>2, ReturnAllRespects DEF ReadCooldowns, Respects
  <1>3. CASE \E r \in Rules : AdmitAlert(r)
    BY <1>3, AdmitAlertRespects
  <1>4. CASE Next /\ ~ ReadCooldowns /\ ~ (\E r \in Rules : AdmitAlert(r))
    <2>1. fresh' \subseteq fresh
      BY <1>4 DEF Next, Step, TimerFires, PgConnect, ListProjects, NextProject, ProcessAlert,
         SelectAlerts, PublishAlerts, PublishIndividually, HostTimeout, HostCrash, NewProcess,
         EndRun, Minute, ReadingsChange, Switch, run
    <2> QED BY <2>1, <1>1
  <1> QED BY <1>2, <1>3, <1>4

-----------------------------------------------------------------------------

(* The invariant holds in every reachable state.                           *)
THEOREM Invariance == Spec => []Inv
  <1>1. Init => Inv
    BY InitHolds
  <1>2. Inv /\ [Next]_vars => Inv'
    BY NextKeeps
  <1> QED BY <1>1, <1>2, PTL DEF Spec

(* Variables have their types: no timestamp read from Redis is older than  *)
(* a cooldown and a minute, the pool hands out no more than it has.        *)
THEOREM TypeCorrect == Spec => []TypeOK
  BY Invariance, PTL DEF Inv

(* An alert that passed is published, in hand, or lost to a failure; the   *)
(* kill of a run that hangs on the pool loses none.                        *)
THEOREM NothingIsForgotten == Spec => []NothingForgotten
  BY Invariance, PTL DEF Inv

(* A run publishes at most one alert of a group, the publication after a   *)
(* lost reply included.                                                    *)
THEOREM AtMostOnePerGroup == Spec => []OneAlertPerGroup
  BY Invariance, PTL DEF Inv

(* No alert is sent in place of a stronger one of its group.               *)
THEOREM NoSubstitution == Spec => []NoWeakerSubstitute
  <1>1. Inv => NoWeakerSubstitute
    <2> SUFFICES ASSUME Inv, NEW s \in fresh, NEW r \in triggered, GroupOf(s) = GroupOf(r)
                 PROVE  ~ Outranks(r, s)
      BY DEF NoWeakerSubstitute
    <2>1. s \in batch /\ IsSelection(batch, triggered)
      BY DEF Inv, Batches
    <2> QED BY <2>1 DEF IsSelection
  <1> QED BY <1>1, Invariance, PTL

(* Between two checked alerts with one key a whole cooldown passes, over   *)
(* slow runs and restarts.                                                 *)
THEOREM CooldownsHold == Spec => CooldownRespected
  <1>1. Inv /\ [Next]_vars => [Respects]_vars
    BY NextRespects
  <1>2. Spec => [][Respects]_vars
    BY <1>1, Invariance, PTL DEF Spec
  <1> QED BY <1>2, PTL DEF CooldownRespected, Respects
=============================================================================
