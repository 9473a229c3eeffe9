----------------------------- MODULE BackupCron -----------------------------
(***************************************************************************)
(* The backup cron: a timer function that runs on the first of each month  *)
(* and copies the previous month's logs and metrics of every project past  *)
(* its retention period from Elasticsearch, through a local file, to the   *)
(* data lake.  (backup-cron/src/functions/backup-cron.js)                  *)
(*                                                                         *)
(* Every await is a step of its own: documents arrive late, calls fail,    *)
(* the instance is replaced in between.  Time is counted in months; a run  *)
(* is over long before the next one.  A file is the set of the documents   *)
(* it holds; none is ever written empty, so {} is a file that is not there.*)
(* Local files are named by project and kind alone, and a failed call      *)
(* leaves them for the next run to find.                                   *)
(*                                                                         *)
(* The code uses the result of pg.query as an array and the answers of     *)
(* Elasticsearch through .body.  What the libraries make of that is left   *)
(* open: Iterable says whether the result may have a length, Findable      *)
(* which kinds of indices may be found to exist.  With the versions of     *)
(* package.json neither happens (a pg Result has .rows, an answer of       *)
(* version 9 no .body, and the server names metrics indices otherwise):    *)
(* the loop has no turn.  The safety properties hold in either case.       *)
(*                                                                         *)
(* An operator whose comment says "Changed" is a deliberately wrong        *)
(* version of the one after it.  Nothing uses it: it is there to show      *)
(* that a property notices the mistake it describes.                       *)
(***************************************************************************)
EXTENDS Integers, FiniteSets

CONSTANTS Projects,
          ValidNames,    \* projects whose name matches /^[a-zA-Z0-9_]+$/
          Created,       \* month in which a project was created
          Retention,     \* parseInt of retention_period, in months
          Documents,     \* records [project, kind, month, id]
          Findable,      \* kinds whose index may be found to exist
          Iterable,      \* the result of pg.query may have a length
          LastMonth,     \* bound of this model on time
          MaxFaults      \* bound of this model on failures

Kinds == {"logs", "metrics"}
Months == 1 .. LastMonth

ASSUME ProjectsAssumption ==
  /\ ValidNames \subseteq Projects
  /\ Created \in [Projects -> Int]
  /\ Retention \in [Projects -> Nat]
ASSUME DocumentsAssumption ==
  \A d \in Documents : d.project \in Projects /\ d.kind \in Kinds /\ d.month \in Nat
ASSUME BoundsAssumption == LastMonth \in Nat \ {0} /\ MaxFaults \in Nat
ASSUME ClientsAssumption == Findable \subseteq Kinds /\ Iterable \in BOOLEAN

VARIABLES
  active,   \* projects with active in the database
  es,       \* documents in Elasticsearch
  lake,     \* the file of each project, kind and month in the data lake
  local,    \* the local file of each project and kind
  month,    \* now
  due,      \* the schedule of this month has not been served
  pc,       \* where the handler awaits
  rows,     \* projects the query returned, still to be visited
  project,  \* the project being archived
  faults,
  qualifying  \* history: what the latest run has to archive, at its start

vars == <<active, es, lake, local, month, due, pc, rows, project, faults, qualifying>>

Steps == {"idle", "list", "next", "logs", "metrics", "create", "upload logs",
          "upload metrics", "cleanup"}

TypeOK ==
  /\ active \subseteq Projects
  /\ es \subseteq Documents
  /\ lake \in [Projects -> [Kinds -> [Months -> SUBSET Documents]]]
  /\ local \in [Projects -> [Kinds -> SUBSET Documents]]
  /\ month \in Months
  /\ due \in BOOLEAN
  /\ pc \in Steps
  /\ rows \subseteq Projects
  /\ project \in Projects
  /\ faults \in 0 .. MaxFaults
  /\ qualifying \subseteq Documents

Init ==
  /\ active = Projects
  /\ es = {}
  /\ lake = [p \in Projects |-> [k \in Kinds |-> [m \in Months |-> {}]]]
  /\ local = [p \in Projects |-> [k \in Kinds |-> {}]]
  /\ month = 1 /\ due = FALSE
  /\ pc = "idle" /\ rows = {} /\ project \in Projects
  /\ faults = 0
  /\ qualifying = {}

-----------------------------------------------------------------------------
(* The environment.                                                        *)

(* The server stores a document, maybe of an earlier month.                *)
Arrives(d) ==
  /\ d \notin es /\ d.month <= month
  /\ es' = es \cup {d}
  /\ UNCHANGED <<active, lake, local, month, due, pc, rows, project, faults, qualifying>>

Switch(p) ==
  /\ pc = "idle"
  /\ active' = IF p \in active THEN active \ {p} ELSE active \cup {p}
  /\ UNCHANGED <<es, lake, local, month, due, pc, rows, project, faults, qualifying>>

(* A month begins; a run that was due and did not start is lost.           *)
NextMonth ==
  /\ pc = "idle" /\ month < LastMonth
  /\ month' = month + 1 /\ due' = TRUE /\ qualifying' = {}
  /\ UNCHANGED <<active, es, lake, local, pc, rows, project, faults>>

-----------------------------------------------------------------------------
Fault == faults < MaxFaults /\ faults' = faults + 1
NoFault == UNCHANGED faults

PastRetention(p) == month - Created[p] >= Retention[p]
Archives(p) == PastRetention(p) /\ p \in active /\ p \in ValidNames

(* From the first of the previous month to the first of this one.          *)
InRange(d) == d.month >= month - 1 /\ d.month < month

TimerFires ==
  /\ pc = "idle" /\ due
  /\ due' = FALSE /\ pc' = "list"
  /\ qualifying' = {d \in es : Archives(d.project) /\ InRange(d)}
  /\ UNCHANGED <<active, es, lake, local, month, rows, project, faults>>

(* pg.connect and pg.query; an error, or a result without a length, ends   *)
(* the run.                                                                *)
ListProjects ==
  /\ pc = "list"
  /\ \/ Iterable /\ pc' = "next" /\ rows' = Projects /\ NoFault
     \/ pc' = "idle" /\ UNCHANGED rows /\ (NoFault \/ Fault)
  /\ UNCHANGED <<active, es, lake, local, month, due, project, qualifying>>

NextProject ==
  /\ pc = "next"
  /\ \/ \E p \in rows :
          /\ rows' = rows \ {p}
          /\ project' = p
          /\ pc' = IF Archives(p) THEN "logs" ELSE "next"
     \/ rows = {} /\ pc' = "idle" /\ UNCHANGED <<rows, project>>
  /\ UNCHANGED <<active, es, lake, local, month, due, faults, qualifying>>

(* What the search and the scroll give, if they are made.                  *)
Archivable(p, k) == {d \in es : d.project = p /\ d.kind = k /\ InRange(d)}

(* Changed: the documents are appended to what the file holds.             *)
AppendFile(file, docs) == file \cup docs
(* writeFileSync: what a former run left behind is replaced.               *)
WriteFile(file, docs) == docs

(* exists, search and scroll, then the local file.  Without the index or   *)
(* documents, and after an error, which is caught, the file is as it was.  *)
Fetch(k, next) ==
  /\ pc = k
  /\ pc' = next
  /\ \/ UNCHANGED local /\ (NoFault \/ Fault)
     \/ /\ k \in Findable /\ Archivable(project, k) # {}
        /\ local' = [local EXCEPT ![project][k] = WriteFile(@, Archivable(project, k))]
        /\ NoFault
  /\ UNCHANGED <<active, es, lake, month, due, rows, project, qualifying>>

FetchLogs == Fetch("logs", "metrics")

(* One search for each day's index, of which each may fail by itself: the  *)
(* file gets what the others hold.                                         *)
FetchMetrics ==
  \/ Fetch("metrics", "create")
  \/ /\ pc = "metrics" /\ pc' = "create"
     /\ "metrics" \in Findable /\ Fault
     /\ \E docs \in (SUBSET Archivable(project, "metrics")) \ {{}} :
          local' = [local EXCEPT ![project]["metrics"] = docs]
     /\ UNCHANGED <<active, es, lake, month, due, rows, project, qualifying>>

(* createIfNotExists of the file system and the directory; the outer catch *)
(* goes on with the next project.                                          *)
CreateDirectory ==
  /\ pc = "create"
  /\ \/ pc' = "upload logs" /\ NoFault
     \/ pc' = "next" /\ Fault
  /\ UNCHANGED <<active, es, lake, local, month, due, rows, project, qualifying>>

(* The name of the remote file is that of the previous month, whatever the *)
(* local file holds and however long the retention period.  Changed: the   *)
(* same name in every month.                                               *)
RemoteMonthFixed == 1
RemoteMonth == month - 1

(* Without a local file there is nothing to upload.  Changed: what the     *)
(* directory held before is gone.                                          *)
UploadedAlone(k) ==
  IF local[project][k] = {} THEN lake
  ELSE [lake EXCEPT ![project][k] = [m \in {RemoteMonth} |-> local[project][k]]]
Uploaded(k) ==
  IF local[project][k] = {} THEN lake
  ELSE [lake EXCEPT ![project][k][RemoteMonth] = local[project][k]]

Upload(k, here, next) ==
  /\ pc = here
  /\ \/ pc' = next /\ lake' = Uploaded(k) /\ NoFault
     \/ /\ local[project][k] # {}
        /\ pc' = "next" /\ Fault
        /\ lake' \in {lake, Uploaded(k)}
  /\ UNCHANGED <<active, es, local, month, due, rows, project, qualifying>>

UploadLogs == Upload("logs", "upload logs", "upload metrics")
UploadMetrics == Upload("metrics", "upload metrics", "cleanup")

(* Both local files are removed.  Then "Delete Archived Data from          *)
(* Elasticsearch" deletes nothing: logs is declared in an inner block, so  *)
(* that logs.length is a ReferenceError, which is caught.                  *)
Cleanup ==
  /\ pc = "cleanup"
  /\ pc' = "next"
  /\ local' = [local EXCEPT ![project] = [k \in Kinds |-> {}]]
  /\ UNCHANGED <<active, es, lake, month, due, rows, project, faults, qualifying>>

(* The instance dies, and with it the run and maybe the local files.  The  *)
(* host may fire the timer again for a run whose end it has not seen.      *)
Crash ==
  /\ Fault
  /\ pc' = "idle" /\ rows' = {} /\ qualifying' = {}
  /\ due' \in {due, due \/ pc # "idle"}
  /\ local' \in {local, [p \in Projects |-> [k \in Kinds |-> {}]]}
  /\ UNCHANGED <<active, es, lake, month, project>>

-----------------------------------------------------------------------------
Next ==
  \/ \E d \in Documents : Arrives(d)
  \/ \E p \in Projects : Switch(p)
  \/ NextMonth \/ TimerFires \/ ListProjects \/ NextProject
  \/ FetchLogs \/ FetchMetrics \/ CreateDirectory
  \/ UploadLogs \/ UploadMetrics \/ Cleanup \/ Crash

Spec == Init /\ [][Next]_vars

-----------------------------------------------------------------------------
(* Properties.                                                             *)

(* A file of the data lake holds documents of its project and kind, all of *)
(* one month and not of a later month than its name; an earlier one when   *)
(* it was left behind by a run that failed.  (the fixed local names)       *)
OneMonthPerFile ==
  \A p \in Projects, k \in Kinds, m \in Months :
    LET f == lake[p][k][m]
    IN  /\ \A d \in f : d.project = p /\ d.kind = k /\ d.month <= m
        /\ \A d, e \in f : d.month = e.month

(* A log in the file of its own month stays there: not a later month's     *)
(* run, nor one that is started again after a crash and whose calls fail   *)
(* or find other files left behind, takes it out again.  (WriteFile, the   *)
(* local names and the remote ones)                                        *)
OwnLogs(p, m) == {d \in lake[p]["logs"][m] : d.month = m}
LogsStayArchived ==
  [][\A p \in Projects, m \in Months : OwnLogs(p, m) \subseteq OwnLogs(p, m)']_vars

(* "Qualifying data is moved from Elasticsearch to Azure Data Lake": when  *)
(* a run is over in which nothing failed, what qualified at its start is   *)
(* in the data lake and no longer in Elasticsearch.  (README.md, Backup &  *)
(* Retention Flow)                                                         *)
QualifyingDataIsMoved ==
  pc = "idle" /\ faults = 0 =>
    \A d \in qualifying : d \in lake[d.project][d.kind][month - 1] \ es
=============================================================================
