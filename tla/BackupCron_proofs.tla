-------------------------- MODULE BackupCron_proofs --------------------------
(***************************************************************************)
(* What BackupCron checks on a small instance holds for all projects,      *)
(* names, retention periods, documents, months and failures, and whatever  *)
(* the clients of PostgreSQL and Elasticsearch answer: the types, that a   *)
(* file holds one month of its project, and that an archived log stays.    *)
(***************************************************************************)
EXTENDS BackupCron, TLAPS

(* What may be in a file of project p and kind k up to month m.            *)
Sound(f, p, k, m) ==
  /\ \A d \in f : d.project = p /\ d.kind = k /\ d.month <= m
  /\ \A d, e \in f : d.month = e.month

LocalSound ==
  \A p \in Projects, k \in Kinds : Sound(local[p][k], p, k, month - 1)
LakeSound ==
  \A p \in Projects, k \in Kinds, m \in Months : Sound(lake[p][k][m], p, k, m)

(* There is a previous month whenever a run is due or under way.           *)
HasPrevious == due \/ pc # "idle" => month >= 2

(* No run has written a file of this month or of a later one.              *)
Ahead == \A p \in Projects, m \in Months : m >= month => lake[p]["logs"][m] = {}

(* A log that is in last month's file already is still in Elasticsearch,   *)
(* and is in the local file too, if there is one.                          *)
Covers(p, m) ==
  /\ OwnLogs(p, m) \subseteq es
  /\ local[p]["logs"] # {} => OwnLogs(p, m) \subseteq local[p]["logs"]
Covered ==
  /\ \A p \in Projects, k \in Kinds : local[p][k] \subseteq es
  /\ \A p \in Projects, m \in Months : m = month - 1 => Covers(p, m)

Inv == /\ TypeOK /\ HasPrevious /\ LocalSound /\ LakeSound /\ Ahead /\ Covered

-----------------------------------------------------------------------------
(* The search finds documents of one month.                                *)
LEMMA FoundIsSound ==
  ASSUME TypeOK, NEW p \in Projects, NEW k \in Kinds, NEW f \in SUBSET Archivable(p, k)
  PROVE  Sound(f, p, k, month - 1) /\ f \in SUBSET Documents /\ f \subseteq es
  <1>1. month \in Int
    BY BoundsAssumption DEF TypeOK, Months
  <1>2. \A d \in Archivable(p, k) :
          /\ d \in Documents /\ d \in es
          /\ d.project = p /\ d.kind = k /\ d.month = month - 1
    <2> TAKE d \in Archivable(p, k)
    <2>1. d \in es /\ d.project = p /\ d.kind = k /\ d.month >= month - 1 /\ d.month < month
      BY DEF Archivable, InRange
    <2>2. d \in Documents /\ d.month \in Nat
      BY <2>1, DocumentsAssumption DEF TypeOK
    <2> QED BY <1>1, <2>1, <2>2
  <1> QED BY <1>1, <1>2 DEF Sound

(* It finds every log that is in last month's file.                        *)
LEMMA FindsOwnLogs ==
  ASSUME Inv, NEW p \in Projects, NEW m \in Months, m = month - 1
  PROVE  OwnLogs(p, m) \subseteq Archivable(p, "logs")
  <1> SUFFICES ASSUME NEW d \in OwnLogs(p, m) PROVE d \in Archivable(p, "logs")
    OBVIOUS
  <1>1. month \in Int /\ m \in Int /\ "logs" \in Kinds
    BY BoundsAssumption DEF Inv, TypeOK, Months, Kinds
  <1>2. d \in es /\ d.project = p /\ d.kind = "logs" /\ d.month = m
    BY <1>1 DEF Inv, Covered, Covers, OwnLogs, LakeSound, Sound
  <1>3. InRange(d)
    BY <1>1, <1>2 DEF InRange
  <1> QED BY <1>2, <1>3 DEF Archivable

(* A sound file stays sound as time goes on.                               *)
LEMMA SoundLater ==
  ASSUME NEW f \in SUBSET Documents, NEW p, NEW k, NEW m \in Int, NEW n \in Int, m <= n,
         Sound(f, p, k, m)
  PROVE  Sound(f, p, k, n)
  BY DocumentsAssumption DEF Sound

(* A step that only stores documents, or touches no file, keeps the files. *)
LEMMA FilesStay ==
  ASSUME Inv, UNCHANGED <<lake, local, month>>, es \subseteq es'
  PROVE  LocalSound' /\ LakeSound' /\ Ahead' /\ Covered'
  <1>1. LocalSound' /\ LakeSound' /\ Ahead'
    BY DEF Inv, LocalSound, LakeSound, Ahead
  <1>2. \A p \in Projects, k \in Kinds : local'[p][k] \subseteq es'
    BY DEF Inv, Covered
  <1>3. \A p \in Projects, m \in Months : OwnLogs(p, m)' = OwnLogs(p, m)
    BY DEF OwnLogs
  <1>4. \A p \in Projects, m \in Months : m = month - 1 => Covers(p, m)'
    BY <1>3 DEF Inv, Covered, Covers
  <1> QED BY <1>1, <1>2, <1>4 DEF Covered

(* Writing one local file.                                                 *)
LEMMA LocalWritten ==
  ASSUME Inv, NEW k \in Kinds, NEW docs \in SUBSET Archivable(project, k),
         k = "logs" => docs = Archivable(project, k),
         local' = [local EXCEPT ![project][k] = docs], UNCHANGED <<month, lake, es>>
  PROVE  /\ local' \in [Projects -> [Kinds -> SUBSET Documents]]
         /\ LocalSound' /\ Covered'
  <1>1. project \in Projects /\ local \in [Projects -> [Kinds -> SUBSET Documents]]
    BY DEF Inv, TypeOK
  <1>2. docs \in SUBSET Documents /\ docs \subseteq es /\ Sound(docs, project, k, month - 1)
    BY <1>1, FoundIsSound DEF Inv
  <1>3. \A q \in Projects, h \in Kinds :
          local'[q][h] = IF q = project /\ h = k THEN docs ELSE local[q][h]
    BY <1>1
  <1>4. local' \in [Projects -> [Kinds -> SUBSET Documents]]
    BY <1>1, <1>2
  <1>5. LocalSound'
    BY <1>2, <1>3 DEF Inv, LocalSound
  <1>6. \A p \in Projects, m \in Months : m = month - 1 => Covers(p, m)'
    <2> SUFFICES ASSUME NEW p \in Projects, NEW m \in Months, m = month - 1
                 PROVE  Covers(p, m)'
      OBVIOUS
    <2>1. Covers(p, m) /\ OwnLogs(p, m)' = OwnLogs(p, m)
      BY DEF Inv, Covered, OwnLogs
    <2>2. "logs" \in Kinds
      BY DEF Kinds
    <2>3. CASE p = project /\ k = "logs"
      BY <1>3, <2>1, <2>2, <2>3, FindsOwnLogs DEF Covers
    <2>4. CASE ~ (p = project /\ k = "logs")
      BY <1>3, <2>1, <2>2, <2>4 DEF Covers
    <2> QED BY <2>3, <2>4
  <1>7. \A p \in Projects, h \in Kinds : local'[p][h] \subseteq es'
    BY <1>2, <1>3 DEF Inv, Covered
  <1> QED BY <1>4, <1>5, <1>6, <1>7 DEF Covered

(* An upload puts the local file under the name of last month, and takes   *)
(* no log out of the file of its month.                                    *)
LEMMA LakeWritten ==
  ASSUME Inv, NEW k \in Kinds, lake' = Uploaded(k), pc # "idle",
         UNCHANGED <<month, local, es>>
  PROVE  /\ lake' \in [Projects -> [Kinds -> [Months -> SUBSET Documents]]]
         /\ LakeSound' /\ Ahead' /\ Covered'
         /\ \A p \in Projects, m \in Months : OwnLogs(p, m) \subseteq OwnLogs(p, m)'
  <1>1. /\ project \in Projects /\ local[project][k] \in SUBSET Documents
        /\ lake \in [Projects -> [Kinds -> [Months -> SUBSET Documents]]]
        /\ month \in Int /\ "logs" \in Kinds
    BY BoundsAssumption DEF Inv, TypeOK, Months, Kinds
  <1>2. month - 1 \in Months
    BY BoundsAssumption DEF Inv, TypeOK, HasPrevious, Months
  <1>3. CASE local[project][k] = {}
    <2>1. UNCHANGED lake
      BY <1>3 DEF Uploaded
    <2>2. \A p \in Projects, m \in Months : OwnLogs(p, m)' = OwnLogs(p, m)
      BY <2>1 DEF OwnLogs
    <2> QED BY <1>1, <2>1, <2>2, FilesStay
  <1>4. CASE local[project][k] # {}
    <2>1. lake' = [lake EXCEPT ![project][k][month - 1] = local[project][k]]
      BY <1>4 DEF Uploaded, RemoteMonth
    <2>2. lake' \in [Projects -> [Kinds -> [Months -> SUBSET Documents]]]
      BY <1>1, <1>2, <2>1
    <2>3. \A q \in Projects, h \in Kinds, m \in Months :
            lake'[q][h][m] = IF q = project /\ h = k /\ m = month - 1
                             THEN local[project][k] ELSE lake[q][h][m]
      BY <1>1, <1>2, <2>1
    <2>4. Sound(local[project][k], project, k, month - 1)
      BY <1>1 DEF Inv, LocalSound
    <2>5. LakeSound'
      BY <2>3, <2>4 DEF Inv, LakeSound
    <2>6. Ahead'
      <3> SUFFICES ASSUME NEW p \in Projects, NEW m \in Months, m >= month
                   PROVE  lake'[p]["logs"][m] = {}
        BY DEF Ahead
      <3>1. m # month - 1
        BY <1>1 DEF Months
      <3> QED BY <1>1, <2>3, <3>1 DEF Inv, Ahead
    <2>7. ASSUME NEW p \in Projects, NEW m \in Months
          PROVE  /\ OwnLogs(p, m) \subseteq OwnLogs(p, m)'
                 /\ m = month - 1 => Covers(p, m)'
      <3>1. CASE p = project /\ k = "logs" /\ m = month - 1
        <4>1. lake'[p]["logs"][m] = local[p]["logs"] /\ local[p]["logs"] # {}
          BY <1>1, <1>4, <2>3, <3>1
        <4>2. OwnLogs(p, m) \subseteq local[p]["logs"]
          BY <3>1, <4>1 DEF Inv, Covered, Covers
        <4>3. OwnLogs(p, m) \subseteq OwnLogs(p, m)' /\ OwnLogs(p, m)' \subseteq local[p]["logs"]
          BY <4>1, <4>2 DEF OwnLogs
        <4>4. local[p]["logs"] \subseteq es
          BY <1>1 DEF Inv, Covered
        <4> QED BY <4>3, <4>4 DEF Covers
      <3>2. CASE ~ (p = project /\ k = "logs" /\ m = month - 1)
        <4>1. lake'[p]["logs"][m] = lake[p]["logs"][m]
          BY <1>1, <2>3, <3>2
        <4>2. OwnLogs(p, m)' = OwnLogs(p, m)
          BY <4>1 DEF OwnLogs
        <4> QED BY <4>2 DEF Inv, Covered, Covers
      <3> QED BY <3>1, <3>2
    <2>8. Covered'
      BY <2>7 DEF Inv, Covered
    <2> QED BY <2>2, <2>5, <2>6, <2>7, <2>8
  <1> QED BY <1>3, <1>4

-----------------------------------------------------------------------------
(* Every step keeps the invariant.                                         *)

LEMMA InitHolds ==
  ASSUME Init PROVE Inv
  <1>1. TypeOK
    <2>1. /\ lake \in [Projects -> [Kinds -> [Months -> SUBSET Documents]]]
          /\ local \in [Projects -> [Kinds -> SUBSET Documents]]
      BY DEF Init
    <2>2. month \in Months /\ faults \in 0 .. MaxFaults
      BY BoundsAssumption DEF Init, Months
    <2>3. /\ active \subseteq Projects /\ es \subseteq Documents /\ due \in BOOLEAN
          /\ pc \in Steps /\ rows \subseteq Projects /\ project \in Projects
          /\ qualifying \subseteq Documents
      BY DEF Init, Steps
    <2> QED BY <2>1, <2>2, <2>3 DEF TypeOK
  <1>2. LocalSound /\ LakeSound /\ Ahead
    BY DEF Init, LocalSound, LakeSound, Ahead, Kinds, Sound
  <1>3. Covered
    BY DEF Init, Covered, Covers, OwnLogs, Kinds
  <1> QED BY <1>1, <1>2, <1>3 DEF Init, Inv, HasPrevious

LEMMA ArrivesKeeps ==
  ASSUME Inv, NEW d \in Documents, Arrives(d) PROVE Inv'
  <1>1. /\ es' = es \cup {d}
        /\ UNCHANGED <<active, lake, local, month, due, pc, rows, project, faults, qualifying>>
    BY DEF Arrives
  <1>2. TypeOK' /\ HasPrevious'
    BY <1>1 DEF Inv, TypeOK, HasPrevious
  <1> QED BY <1>1, <1>2, FilesStay DEF Inv

LEMMA NextMonthKeeps == ASSUME Inv, NextMonth PROVE Inv'
  <1>1. /\ pc = "idle" /\ month < LastMonth /\ month' = month + 1 /\ due' = TRUE
        /\ qualifying' = {}
        /\ UNCHANGED <<active, es, lake, local, pc, rows, project, faults>>
    BY DEF NextMonth
  <1>2. month \in Nat /\ month >= 1 /\ month' \in Months
    BY <1>1, BoundsAssumption DEF Inv, TypeOK, Months
  <1>3. TypeOK' /\ HasPrevious'
    BY <1>1, <1>2 DEF Inv, TypeOK, HasPrevious
  <1>4. LocalSound'
    <2> SUFFICES ASSUME NEW p \in Projects, NEW k \in Kinds
                 PROVE  Sound(local[p][k], p, k, month' - 1)
      BY <1>1 DEF LocalSound
    <2>1. local[p][k] \in SUBSET Documents /\ Sound(local[p][k], p, k, month - 1)
      BY DEF Inv, TypeOK, LocalSound
    <2>2. month - 1 \in Int /\ month' - 1 \in Int /\ month - 1 <= month' - 1
      BY <1>1, <1>2
    <2> QED BY <2>1, <2>2, SoundLater
  <1>5. LakeSound'
    BY <1>1 DEF Inv, LakeSound
  <1>6. Ahead'
    <2> SUFFICES ASSUME NEW p \in Projects, NEW m \in Months, m >= month'
                 PROVE  lake[p]["logs"][m] = {}
      BY <1>1 DEF Ahead
    <2>1. m >= month
      BY <1>1, <1>2 DEF Months
    <2> QED BY <2>1 DEF Inv, Ahead
  <1>7. Covered'
    <2>1. ASSUME NEW p \in Projects, NEW m \in Months, m = month' - 1 PROVE Covers(p, m)'
      <3>1. m >= month
        BY <1>1, <1>2, <2>1
      <3>2. lake'[p]["logs"][m] = {}
        BY <1>1, <3>1 DEF Inv, Ahead
      <3> QED BY <3>2 DEF Covers, OwnLogs
    <2> QED BY <1>1, <2>1 DEF Inv, Covered
  <1> QED BY <1>3, <1>4, <1>5, <1>6, <1>7 DEF Inv

(* A failure counts.                                                       *)
LEMMA Faults ==
  ASSUME TypeOK, NoFault \/ Fault
  PROVE  faults' \in 0 .. MaxFaults
  BY BoundsAssumption DEF TypeOK, NoFault, Fault

(* The steps that leave Elasticsearch and the files alone.                 *)
LEMMA QuietKeeps ==
  ASSUME Inv,
         \/ \E p \in Projects : Switch(p)
         \/ TimerFires \/ ListProjects \/ NextProject \/ CreateDirectory
  PROVE  Inv'
  <1>1. UNCHANGED <<es, lake, local, month>>
    BY DEF Switch, TimerFires, ListProjects, NextProject, CreateDirectory
  <1>2. faults' \in 0 .. MaxFaults
    BY Faults
    DEF Inv, TypeOK, Switch, TimerFires, ListProjects, NextProject, CreateDirectory, NoFault
  <1>3. /\ active' \subseteq Projects /\ due' \in BOOLEAN /\ pc' \in Steps
        /\ rows' \subseteq Projects /\ project' \in Projects /\ qualifying' \subseteq Documents
    BY DEF Inv, TypeOK, Steps, Switch, TimerFires, ListProjects, NextProject, CreateDirectory
  <1>4. TypeOK'
    BY <1>1, <1>2, <1>3 DEF Inv, TypeOK
  <1>5. HasPrevious'
    BY <1>1 DEF Inv, HasPrevious, Switch, TimerFires, ListProjects, NextProject, CreateDirectory
  <1> QED BY <1>1, <1>4, <1>5, FilesStay DEF Inv

(* A search, of which the one for metrics may succeed in part.             *)
LEMMA FetchKeeps == ASSUME Inv, FetchLogs \/ FetchMetrics PROVE Inv'
  <1>1. /\ pc \in {"logs", "metrics"} /\ pc' \in {"metrics", "create"}
        /\ UNCHANGED <<active, es, lake, month, due, rows, project, qualifying>>
        /\ NoFault \/ Fault
    BY DEF FetchLogs, FetchMetrics, Fetch
  <1>2. \/ UNCHANGED local
        \/ \E k \in Kinds : \E docs \in SUBSET Archivable(project, k) :
             /\ k = "logs" => docs = Archivable(project, k)
             /\ local' = [local EXCEPT ![project][k] = docs]
    BY DEF FetchLogs, FetchMetrics, Fetch, WriteFile, Kinds
  <1>3. local' \in [Projects -> [Kinds -> SUBSET Documents]] /\ LocalSound' /\ Covered'
    <2>1. CASE UNCHANGED local
      BY <1>1, <2>1, FilesStay DEF Inv, TypeOK
    <2> QED BY <1>1, <1>2, <2>1, LocalWritten
  <1>4. faults' \in 0 .. MaxFaults
    BY <1>1, Faults DEF Inv
  <1>5. TypeOK' /\ HasPrevious' /\ LakeSound' /\ Ahead'
    BY <1>1, <1>3, <1>4 DEF Inv, TypeOK, Steps, HasPrevious, LakeSound, Ahead
  <1> QED BY <1>3, <1>5 DEF Inv

(* What an upload does to the data lake.                                   *)
LEMMA UploadSteps ==
  ASSUME UploadLogs \/ UploadMetrics
  PROVE  /\ pc # "idle" /\ pc' \in Steps
         /\ NoFault \/ Fault
         /\ UNCHANGED <<active, es, local, month, due, rows, project, qualifying>>
         /\ UNCHANGED lake \/ \E k \in Kinds : lake' = Uploaded(k)
  BY DEF UploadLogs, UploadMetrics, Upload, Kinds, Steps

LEMMA UploadKeeps == ASSUME Inv, UploadLogs \/ UploadMetrics PROVE Inv'
  <1>1. /\ lake' \in [Projects -> [Kinds -> [Months -> SUBSET Documents]]]
        /\ LakeSound' /\ Ahead' /\ Covered'
    <2>1. CASE UNCHANGED lake
      BY <2>1, UploadSteps, FilesStay DEF Inv, TypeOK
    <2> QED BY <2>1, UploadSteps, LakeWritten
  <1>2. faults' \in 0 .. MaxFaults
    BY UploadSteps, Faults DEF Inv
  <1>3. TypeOK' /\ HasPrevious' /\ LocalSound'
    BY <1>1, <1>2, UploadSteps DEF Inv, TypeOK, HasPrevious, LocalSound
  <1> QED BY <1>1, <1>3 DEF Inv

(* Local files are removed: one project's, or all of them.                 *)
LEMMA LocalRemoved ==
  ASSUME Inv, NEW gone \in SUBSET Projects,
         local' = [p \in Projects |-> IF p \in gone THEN [k \in Kinds |-> {}] ELSE local[p]],
         UNCHANGED <<es, lake, month>>
  PROVE  /\ local' \in [Projects -> [Kinds -> SUBSET Documents]]
         /\ LocalSound' /\ LakeSound' /\ Ahead' /\ Covered'
  <1>1. local \in [Projects -> [Kinds -> SUBSET Documents]]
    BY DEF Inv, TypeOK
  <1>2. \A p \in Projects, k \in Kinds :
          local'[p][k] = IF p \in gone THEN {} ELSE local[p][k]
    BY <1>1
  <1>3. LocalSound' /\ LakeSound' /\ Ahead'
    BY <1>2 DEF Inv, LocalSound, LakeSound, Ahead, Sound
  <1>4. \A p \in Projects, m \in Months : m = month - 1 => Covers(p, m)'
    BY <1>2 DEF Inv, Covered, Covers, OwnLogs, Kinds
  <1>5. \A p \in Projects, k \in Kinds : local'[p][k] \subseteq es'
    BY <1>2 DEF Inv, Covered
  <1> QED BY <1>1, <1>3, <1>4, <1>5 DEF Covered

LEMMA CleanupKeeps == ASSUME Inv, Cleanup PROVE Inv'
  <1>1. /\ pc = "cleanup" /\ pc' = "next"
        /\ local' = [local EXCEPT ![project] = [k \in Kinds |-> {}]]
        /\ UNCHANGED <<active, es, lake, month, due, rows, project, faults, qualifying>>
    BY DEF Cleanup
  <1>2. local' = [p \in Projects |->
                    IF p \in {project} THEN [k \in Kinds |-> {}] ELSE local[p]]
    BY <1>1 DEF Inv, TypeOK
  <1>3. /\ local' \in [Projects -> [Kinds -> SUBSET Documents]]
        /\ LocalSound' /\ LakeSound' /\ Ahead' /\ Covered'
    BY <1>1, <1>2, LocalRemoved DEF Inv, TypeOK
  <1>4. TypeOK' /\ HasPrevious'
    BY <1>1, <1>3 DEF Inv, TypeOK, Steps, HasPrevious
  <1> QED BY <1>3, <1>4 DEF Inv

LEMMA CrashKeeps == ASSUME Inv, Crash PROVE Inv'
  <1>1. /\ Fault /\ pc' = "idle" /\ rows' = {} /\ qualifying' = {}
        /\ due' \in {due, due \/ pc # "idle"}
        /\ local' \in {local, [p \in Projects |-> [k \in Kinds |-> {}]]}
        /\ UNCHANGED <<active, es, lake, month, project>>
    BY DEF Crash
  <1>2. faults' \in 0 .. MaxFaults
    BY <1>1, Faults DEF Inv
  <1>3. /\ local' \in [Projects -> [Kinds -> SUBSET Documents]]
        /\ LocalSound' /\ LakeSound' /\ Ahead' /\ Covered'
    <2>1. CASE local' = local
      BY <1>1, <2>1, FilesStay DEF Inv, TypeOK
    <2>2. CASE local' = [p \in Projects |-> [k \in Kinds |-> {}]]
      <3>1. local' = [p \in Projects |->
                        IF p \in Projects THEN [k \in Kinds |-> {}] ELSE local[p]]
        BY <2>2
      <3> QED BY <1>1, <3>1, LocalRemoved
    <2> QED BY <1>1, <2>1, <2>2
  <1>4. due' \in BOOLEAN /\ HasPrevious'
    BY <1>1 DEF Inv, TypeOK, HasPrevious
  <1>5. TypeOK'
    BY <1>1, <1>2, <1>3, <1>4 DEF Inv, TypeOK, Steps
  <1> QED BY <1>3, <1>4, <1>5 DEF Inv

-----------------------------------------------------------------------------
(* The invariant behind the properties below: sound files on both sides,   *)
(* and no log in last month's file that the next upload would not bring.   *)
THEOREM Invariance == Spec => []Inv
  <1>1. Inv /\ [Next]_vars => Inv'
    <2> SUFFICES ASSUME Inv, [Next]_vars PROVE Inv'
      OBVIOUS
    <2>1. CASE \E d \in Documents : Arrives(d)
      BY <2>1, ArrivesKeeps
    <2>2. CASE UNCHANGED vars
      BY <2>2, FilesStay DEF vars, Inv, TypeOK, HasPrevious
    <2> QED BY <2>1, <2>2, NextMonthKeeps, QuietKeeps, FetchKeeps, UploadKeeps,
               CleanupKeeps, CrashKeeps DEF Next
  <1> QED BY InitHolds, <1>1, PTL DEF Spec

(* The types of every variable.                                            *)
THEOREM TypeCorrect == Spec => []TypeOK
  BY Invariance, PTL DEF Inv

(* A file of the data lake holds one month of one project's documents.     *)
THEOREM FilesHoldOneMonth == Spec => []OneMonthPerFile
  <1>1. Inv => OneMonthPerFile
    BY DEF Inv, LakeSound, Sound, OneMonthPerFile
  <1> QED BY Invariance, <1>1, PTL

(* A log in the file of its own month stays there, whatever later runs,    *)
(* crashes, failures and files left behind do.  (uploads)                  *)
THEOREM ArchivedLogsStay == Spec => LogsStayArchived
  <1> DEFINE Stay == \A p \in Projects, m \in Months : OwnLogs(p, m) \subseteq OwnLogs(p, m)'
  <1>1. Inv /\ [Next]_vars => [Stay]_vars
    <2> SUFFICES ASSUME Inv, Next PROVE Stay
      OBVIOUS
    <2>1. CASE UNCHANGED lake
      BY <2>1 DEF OwnLogs
    <2>2. CASE UploadLogs \/ UploadMetrics
      BY <2>1, <2>2, UploadSteps, LakeWritten
    <2>3. UNCHANGED lake \/ UploadLogs \/ UploadMetrics
      BY DEF Next, Arrives, Switch, NextMonth, TimerFires, ListProjects, NextProject,
             FetchLogs, FetchMetrics, Fetch, CreateDirectory, Cleanup, Crash
    <2> QED BY <2>1, <2>2, <2>3
  <1> QED BY Invariance, <1>1, PTL DEF Spec, LogsStayArchived
=============================================================================
