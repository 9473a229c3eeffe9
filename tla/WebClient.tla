------------------------------ MODULE WebClient ------------------------------
(***************************************************************************)
(* The pages of the web client with a form or a query, as                  *)
(* client/src/App.jsx routes to them: creating projects and alert rules,   *)
(* the settings of a project, the stored logs, the archived logs, the      *)
(* graphs of processor and of memory usage and the charts of live metrics. *)
(* A tab is on one of them, whose module says what happens there; to go to *)
(* another unmounts the page, so that nothing of it is left.  The three    *)
(* parts of the page of metrics share nothing.                             *)
(***************************************************************************)
EXTENDS Integers, Sequences, FiniteSets

CONSTANTS ValidNames, InvalidNames, MaxCreates,              \* CreateProjectPage
          Emails, RuleTypes, LogValues, MaxRules, MaxMails,   \* RuleForm
          Settings, MaxSaves,                                 \* SettingsPage
          Modes, Sources, MaxPages, MaxLinks, MaxAsks,        \* LogsPage
          Bounds, Now, DayHours, Offset, MaxPicks,            \* GraphPage
          Samples, MaxKept, Sizes, MaxArrivals                \* LiveMetricsPanel

ASSUME SetsAssumption ==
  /\ Settings # {} /\ Sources # {} /\ Emails # {} /\ Samples \subseteq Nat
  /\ ValidNames # {} /\ ValidNames \cap (InvalidNames \cup {""}) = {}
ASSUME DatesAssumption ==
  /\ Bounds \subseteq {b \in (0 .. Now) \X (0 .. Now) : b[1] <= b[2]}
  /\ DayHours \in Nat \ {0} /\ Now \in Nat /\ DayHours <= Now /\ Offset \in Int
ASSUME LimitsAssumption ==
  /\ {MaxPages, MaxLinks, MaxKept} \cup Sizes \subseteq Nat \ {0} /\ Sizes # {}
  /\ {MaxCreates, MaxRules, MaxMails, MaxSaves, MaxAsks, MaxPicks, MaxArrivals}
       \subseteq Nat

VARIABLES
  at,  \* the page of the tab
  fields, inputs, nameError, created, post, response, taken, creations,
  form, dest, dialog, emails, posts, filling, verified, code, stored, rules, mails,
  setting, project, settingForm, isEditing, saving, query, settingFailed, saves,
  filter, asked, pending, list, failed, jumped, answer, asks,
  projectName, bounds, boundsDue, controls, request, data, view, alive, picks,
  metrics, historical, maxDataPoints, effectDue, arrivals

Project == INSTANCE CreateProjectPage
Rule == INSTANCE RuleForm
Setting == INSTANCE SettingsPage WITH form <- settingForm, failed <- settingFailed
Logs == INSTANCE LogsPage
Graph == INSTANCE GraphPage WITH Projects <- ValidNames
Live == INSTANCE LiveMetricsPanel

projectVars == <<fields, inputs, nameError, created, post, response, taken, creations>>
ruleVars == <<form, dest, dialog, emails, posts, filling, verified, code, stored,
              rules, mails>>
settingVars == <<setting, project, settingForm, isEditing, saving, query,
                 settingFailed, saves>>
logsVars == <<filter, asked, pending, list, failed, jumped, answer, asks>>
graphVars == <<projectName, bounds, boundsDue, controls, request, data, view, alive,
               picks>>
liveVars == <<metrics, historical, maxDataPoints, effectDue, arrivals>>
vars == <<at, projectVars, ruleVars, settingVars, logsVars, graphVars, liveVars>>

Pages == {"create", "rule", "settings", "logs", "archive", "cpu", "memory", "live"}

TypeOK ==
  /\ at \in Pages
  /\ Project!TypeOK /\ Rule!TypeOK /\ Setting!TypeOK
  /\ Logs!TypeOK /\ Graph!TypeOK /\ Live!TypeOK

Init ==
  /\ at \in Pages
  /\ Project!Init /\ Rule!Init /\ Setting!Init
  /\ Logs!Init /\ Graph!Init /\ Live!Init

OnCreatePage ==
  /\ at = "create" /\ Project!Next
  /\ UNCHANGED <<at, ruleVars, settingVars, logsVars, graphVars, liveVars>>

OnRulePage ==
  /\ at = "rule" /\ Rule!Next
  /\ UNCHANGED <<at, projectVars, settingVars, logsVars, graphVars, liveVars>>

OnSettingsPage ==
  /\ at = "settings" /\ Setting!Next
  /\ UNCHANGED <<at, projectVars, ruleVars, logsVars, graphVars, liveVars>>

OnLogsPage ==
  /\ at \in {"logs", "archive"} /\ Logs!Next
  /\ UNCHANGED <<at, projectVars, ruleVars, settingVars, graphVars, liveVars>>

OnGraphPage ==
  /\ at \in {"cpu", "memory"} /\ Graph!Next
  /\ UNCHANGED <<at, projectVars, ruleVars, settingVars, logsVars, liveVars>>

OnLivePage ==
  /\ at = "live" /\ Live!Next
  /\ UNCHANGED <<at, projectVars, ruleVars, settingVars, logsVars, graphVars>>

Next ==
  \/ OnCreatePage \/ OnRulePage \/ OnSettingsPage
  \/ OnLogsPage \/ OnGraphPage \/ OnLivePage

Spec == Init /\ [][Next]_vars

-----------------------------------------------------------------------------
(* Properties.                                                             *)

(* What is posted as an alert rule can be one, and what is posted as a     *)
(* project is what its form shows: SentRuleIsSound of RuleForm and         *)
(* PostedIsShown of CreateProjectPage.  (handleCreateAlert, handleSubmit)  *)
SentFormIsSound == Rule!SentRuleIsSound /\ Project!PostedIsShown

(* What the user filled in once becomes at most one rule.                  *)
(* (baseQueryWithReauth, handleCreateAlert)                                *)
OneRulePerFilling == Rule!OneRulePerFilling

(* A page that waits for nothing, and whose last request did not fail,     *)
(* shows the answer to that request: the settings after a save, the list   *)
(* for the filter, the usage for the range, the project that was created;  *)
(* and the charts over time show the newest samples.  Excepted are the     *)
(* cases in which the code leaves what is shown behind: an archive file    *)
(* opened straight from another (jumped), a graph whose answers crossed,   *)
(* and a graph of which no control changed since its project did.          *)
(* (the queries of Settings, Logs, ArchiveLogs, the two graphs and         *)
(* CreateProject, updateHistoricalData)                                    *)
PageSettles ==
  /\ Setting!ShowsStored /\ Logs!ShowsFilter /\ Graph!ShowsRange
  /\ Project!ShowsCreated /\ Live!ShowsNewest
=============================================================================
