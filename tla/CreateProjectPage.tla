------------------------- MODULE CreateProjectPage -------------------------
(***************************************************************************)
(* The form that creates a project (client/src/pages/projects/             *)
(* CreateProject.jsx) and the mutation behind it.  The inputs for the name *)
(* and the description are uncontrolled: they show what was typed, also    *)
(* after the state has been reset, so that the two must be told apart.     *)
(* MaxCreates bounds the requests.                                         *)
(*                                                                         *)
(* An operator whose comment says "Changed" is a deliberately wrong        *)
(* version of the one after it.  Nothing uses it: it is there to show      *)
(* that a property notices the mistake it describes.                       *)
(***************************************************************************)
EXTENDS Integers, ReAuthQuery

CONSTANTS ValidNames, InvalidNames,  \* what the two patterns accept and refuse
          MaxCreates

VARIABLES
  fields,      \* projectName, projectDescription, logsRetentionPeriod
  inputs,      \* what the inputs for name and description show
  nameError,   \* an error is shown under the name
  created,     \* the details of the project are shown instead of the form
  post,        \* the request under way (isLoading), <<>> if there is none
  response,    \* projectResponse: the name in the answer
  taken,       \* server: names of projects in the table
  creations

vars == <<fields, inputs, nameError, created, post, response, taken, creations>>

NoName == ""
Names == ValidNames \cup InvalidNames \cup {NoName}
Fields == [name : Names, described : BOOLEAN, period : BOOLEAN]

TypeOK ==
  /\ fields \in Fields
  /\ inputs \in [name : Names, described : BOOLEAN]
  /\ nameError \in BOOLEAN /\ created \in BOOLEAN
  /\ post \in {<<>>} \cup {<<f>> : f \in Fields}
  /\ response \in Names
  /\ taken \subseteq ValidNames
  /\ creations \in 0 .. MaxCreates

Reset == [name |-> NoName, described |-> FALSE, period |-> FALSE]
Blank == [name |-> NoName, described |-> FALSE]

Init ==
  /\ fields = Reset /\ inputs = Blank
  /\ nameError = FALSE /\ created = FALSE
  /\ post = <<>> /\ response = NoName
  /\ taken = {CHOOSE n \in ValidNames : TRUE}
  /\ creations = 0

-----------------------------------------------------------------------------
validateProjectName(name) == name \in ValidNames

handleProjectNameChange(name) ==
  /\ ~ created /\ name # inputs.name
  /\ inputs' = [inputs EXCEPT !.name = name]
  /\ fields' = [fields EXCEPT !.name = name]
  /\ nameError' = ~ validateProjectName(name)
  /\ UNCHANGED <<created, post, response, taken, creations>>

EnterDescription ==
  /\ ~ created
  /\ inputs' = [inputs EXCEPT !.described = ~ @]
  /\ fields' = [fields EXCEPT !.described = inputs'.described]
  /\ UNCHANGED <<nameError, created, post, response, taken, creations>>

(* The select is controlled: it shows the state.                           *)
SelectPeriod ==
  /\ ~ created
  /\ fields' = [fields EXCEPT !.period = TRUE]
  /\ UNCHANGED <<inputs, nameError, created, post, response, taken, creations>>

(* The name is validated again, the button being disabled only while a     *)
(* request is under way.  Changed: the error shown decides.                *)
NoErrorShown == ~ nameError
Submittable == validateProjectName(fields.name)

handleSubmit ==
  /\ ~ created /\ post = <<>> /\ creations < MaxCreates
  /\ IF Submittable
     THEN /\ post' = <<fields>> /\ response' = NoName
          /\ nameError' = FALSE /\ creations' = creations + 1
     ELSE /\ nameError' = TRUE
          /\ UNCHANGED <<post, response, creations>>
  /\ UNCHANGED <<fields, inputs, created, taken>>

(* The server refuses a name that is taken and a project without a period. *)
(* Its row may be inserted and the topics fail: a refusal all the same.    *)
Acceptable == post[1].name \in ValidNames \ taken /\ post[1].period

(* Whatever the answer, the state is reset and the inputs are not.         *)
ProjectCreated ==
  /\ post # <<>>
  /\ \E q \in Query :
       /\ Applied(q) > 0 => Acceptable /\ Applied(q) = 1
       /\ \/ taken' = IF Applied(q) > 0 THEN taken \cup {post[1].name} ELSE taken
          \/ Result(q) = "refused" /\ Acceptable /\ taken' = taken \cup {post[1].name}
       /\ created' = (Result(q) = "done")
       /\ nameError' = IF created' THEN nameError ELSE TRUE
       /\ response' = IF created' THEN post[1].name ELSE NoName
  /\ post' = <<>>
  /\ fields' = Reset
  /\ UNCHANGED <<inputs, creations>>

(* The button of the details: the inputs are mounted anew.                 *)
Back ==
  /\ created /\ created' = FALSE
  /\ inputs' = Blank
  /\ UNCHANGED <<fields, nameError, post, response, taken, creations>>

-----------------------------------------------------------------------------
Next ==
  \/ \E name \in Names : handleProjectNameChange(name)
  \/ EnterDescription \/ SelectPeriod \/ handleSubmit \/ ProjectCreated \/ Back

(* What is posted has a valid name, the one the input shows, although the  *)
(* input keeps its text when the state is reset under it; and a            *)
(* description only if the input shows one.  (handleSubmit)                *)
PostedIsShown ==
  [][post' # <<>> /\ post = <<>> =>
       /\ post'[1].name \in ValidNames /\ post'[1].name = inputs.name
       /\ post'[1].described => inputs.described]_vars

(* The details that are shown only once are those of a project that exists *)
(* and has the name they show.  (handleSubmit)                             *)
ShowsCreated == created => response \in taken /\ post = <<>>
=============================================================================
