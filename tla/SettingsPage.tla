---------------------------- MODULE SettingsPage ----------------------------
(***************************************************************************)
(* The settings of a project (client/src/pages/projects/Settings.jsx) with *)
(* the query and the mutation of RTK Query behind them                     *)
(* (services/ProjectService.js).  The three editable fields are one value. *)
(* Nobody else changes the project meanwhile.  MaxSaves bounds the saves.  *)
(*                                                                         *)
(* An operator whose comment says "Changed" is a deliberately wrong        *)
(* version of the one after it.  Nothing uses it: it is there to show      *)
(* that a property notices the mistake it describes.                       *)
(***************************************************************************)
EXTENDS Integers, ReAuthQuery

CONSTANTS Settings, MaxSaves

VARIABLES
  setting,   \* server: the settings of the project
  project,   \* projectData
  form,      \* formData
  isEditing,
  saving,    \* the mutation that is under way (isUpdating), or NotSet
  query,     \* the query for the project: pending, what it read, invalidated
  failed,    \* the last answer of the query was an error
  saves

vars == <<setting, project, form, isEditing, saving, query, failed, saves>>

NotSet == "not set"
Some == CHOOSE s \in Settings : TRUE

TypeOK ==
  /\ setting \in Settings
  /\ {project, form, saving} \subseteq Settings \cup {NotSet}
  /\ isEditing \in BOOLEAN
  /\ query \in [pending : BOOLEAN, read : Settings \cup {NotSet}, invalid : BOOLEAN]
  /\ failed \in BOOLEAN
  /\ saves \in 0 .. MaxSaves

Asked == [pending |-> TRUE, read |-> NotSet, invalid |-> FALSE]

Init ==
  /\ setting = Some
  /\ project = NotSet /\ form = NotSet
  /\ isEditing = FALSE /\ saving = NotSet
  /\ query = Asked
  /\ failed = FALSE
  /\ saves = 0

-----------------------------------------------------------------------------
(* The server reads the project for the query.                             *)
ReadProject ==
  /\ query.pending /\ query' = [query EXCEPT !.read = setting]
  /\ UNCHANGED <<setting, project, form, isEditing, saving, failed, saves>>

(* An invalidation waits until no request is under way.                    *)
ProjectAnswered ==
  /\ query.pending
  /\ \/ /\ query.read # NotSet
        /\ project' = query.read /\ failed' = FALSE
        /\ form' = IF project' = project THEN form ELSE project'
     \/ failed' = TRUE /\ UNCHANGED <<project, form>>
  /\ query' = IF query.invalid /\ saving = NotSet THEN Asked
              ELSE [query EXCEPT !.pending = FALSE, !.read = NotSet]
  /\ UNCHANGED <<setting, isEditing, saving, saves>>

-----------------------------------------------------------------------------
(* Without a project there is only the page that says so; while the        *)
(* mutation is under way inputs and buttons are disabled.                  *)
Enabled == project # NotSet /\ saving = NotSet

handleEditToggle ==
  /\ Enabled
  /\ isEditing' = ~ isEditing
  /\ form' = IF isEditing THEN project ELSE form
  /\ UNCHANGED <<setting, project, saving, query, failed, saves>>

(* handleInputChange and handleSwitchChange.                               *)
handleInputChange ==
  /\ Enabled /\ isEditing
  /\ form' \in Settings \ {form}
  /\ UNCHANGED <<setting, project, isEditing, saving, query, failed, saves>>

(* handleSaveChanges up to its await ...                                   *)
handleSaveChanges ==
  /\ Enabled /\ isEditing /\ saves < MaxSaves
  /\ saving' = form
  /\ saves' = saves + 1
  /\ UNCHANGED <<setting, project, form, isEditing, query, failed>>

(* invalidatesTags: after an answer or an error, unless nothing was sent.  *)
(* Changed: never.                                                         *)
InvalidatesNever(q) == FALSE
Invalidates(q) == q # <<"unsent">>

(* ... and after it.  The project is asked for anew, by the invalidation   *)
(* or by refetch(), which is dropped while a query is pending.             *)
ProjectUpdated ==
  /\ saving # NotSet
  /\ \E q \in Query :
       /\ setting' = IF Applied(q) > 0 THEN saving ELSE setting
       /\ query' = IF query.pending
                   THEN [query EXCEPT !.invalid = @ \/ Invalidates(q)]
                   ELSE Asked
  /\ saving' = NotSet
  /\ isEditing' = FALSE
  /\ UNCHANGED <<project, form, failed, saves>>

-----------------------------------------------------------------------------
Next ==
  \/ ReadProject \/ ProjectAnswered
  \/ handleEditToggle \/ handleInputChange
  \/ handleSaveChanges \/ ProjectUpdated

(* When nothing is under way the page shows what the server has, unless    *)
(* the last answer was an error: neither a save that finds a query pending *)
(* nor one whose answer is lost leaves the old settings on the page.       *)
(* (handleSaveChanges, invalidatesTags)                                    *)
ShowsStored ==
  saving = NotSet /\ ~ query.pending /\ ~ failed => project = setting
=============================================================================
