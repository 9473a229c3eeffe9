--------------------------- MODULE WebClient_proofs ---------------------------
(***************************************************************************)
(* Proofs that the pages of the web client send what their forms show,     *)
(* create one rule per filling, and settle on what the server has.         *)
(***************************************************************************)
EXTENDS WebClient, FiniteSetTheorems, SequenceTheorems, TLAPS

-----------------------------------------------------------------------------
(* The constants, and the queries (ReAuthQuery)                            *)

\* The limits are natural numbers, some of them positive.
LEMMA Limits ==
  /\ MaxCreates \in Nat /\ MaxRules \in Nat /\ MaxMails \in Nat /\ MaxSaves \in Nat
  /\ MaxAsks \in Nat /\ MaxPicks \in Nat /\ MaxArrivals \in Nat
  /\ MaxPages \in Nat \ {0} /\ MaxLinks \in Nat \ {0} /\ MaxKept \in Nat \ {0}
  /\ Sizes \subseteq Nat \ {0} /\ Sizes # {}
BY LimitsAssumption

\* A request is applied once at most, in part or whole, and once if it succeeds.
LEMMA QueryFacts ==
  ASSUME NEW q \in Rule!Query
  PROVE  /\ Rule!Applied(q) \in {0, 1}
         /\ Rule!Result(q) = "done" => Rule!Applied(q) = 1
         /\ q = <<"unsent">> => Rule!Applied(q) = 0
         /\ Rule!StoredBy(q) \subseteq {0, 1}
<1> DEFINE refused == {i \in DOMAIN q : q[i] = "refused"}
<1> DEFINE done == {i \in DOMAIN q : q[i] \in {"done", "lost"}}
<1>1. Rule!Applied(q) = Cardinality(done)
  BY DEF Rule!Applied, Rule!Cardinality, Cardinality, Rule!IsFiniteSet, IsFiniteSet
<1>2. Cardinality({}) = 0 /\ \A x : Cardinality({x}) = 1
  BY FS_EmptySet, FS_Singleton
<1>5. Rule!StoredBy(q) = Rule!Applied(q) .. Rule!Applied(q) + Cardinality(refused)
  BY DEF Rule!StoredBy, Rule!Cardinality, Cardinality, Rule!IsFiniteSet, IsFiniteSet
<1>3. CASE \E t \in Rule!Try : q = <<t>>
  <2>1. PICK t \in Rule!Try : q = <<t>>
    BY <1>3
  <2>2. done = IF t \in {"done", "lost"} THEN {1} ELSE {}
    BY <2>1
  <2>3. Rule!Result(q) = t
    BY <2>1 DEF Rule!Result
  <2>4. refused = IF t = "refused" THEN {1} ELSE {}
    BY <2>1
  <2> HIDE DEF done, refused
  <2>5. /\ Rule!Applied(q) = IF t \in {"done", "lost"} THEN 1 ELSE 0
        /\ Cardinality(refused) = IF t = "refused" THEN 1 ELSE 0
    BY <1>1, <1>2, <2>2, <2>4
  <2>6. Rule!StoredBy(q) \subseteq {0, 1}
    BY <1>5, <2>5
  <2> QED BY <2>1, <2>3, <2>5, <2>6
<1>4. CASE \E u \in Rule!Try : q = <<"forbidden", u>>
  <2>1. PICK u \in Rule!Try : q = <<"forbidden", u>>
    BY <1>4
  <2>2. done = IF u \in {"done", "lost"} THEN {2} ELSE {}
    BY <2>1
  <2>3. Rule!Result(q) \in {"forbidden", u}
    BY <2>1 DEF Rule!Result
  <2>4. refused = IF u = "refused" THEN {2} ELSE {}
    BY <2>1
  <2> HIDE DEF done, refused
  <2>5. /\ Rule!Applied(q) = IF u \in {"done", "lost"} THEN 1 ELSE 0
        /\ Cardinality(refused) = IF u = "refused" THEN 1 ELSE 0
    BY <1>1, <1>2, <2>2, <2>4
  <2>6. Rule!StoredBy(q) \subseteq {0, 1}
    BY <1>5, <2>5
  <2> QED BY <2>1, <2>3, <2>5, <2>6
<1> QED BY <1>3, <1>4 DEF Rule!Query, Rule!Retried

\* It is the same query for every page.
LEMMA SameQuery ==
  /\ Project!Query = Rule!Query /\ Setting!Query = Rule!Query
  /\ \A q : /\ Project!Applied(q) = Rule!Applied(q) /\ Setting!Applied(q) = Rule!Applied(q)
            /\ Project!Result(q) = Rule!Result(q)
<1>1. Project!Query = Rule!Query /\ Setting!Query = Rule!Query
  BY DEF Project!Query, Rule!Query, Setting!Query, Project!Try, Rule!Try, Setting!Try,
         Project!Retried, Rule!Retried, Setting!Retried
<1>2. ASSUME NEW q
      PROVE  Project!Applied(q) = Rule!Applied(q) /\ Setting!Applied(q) = Rule!Applied(q)
  BY DEF Project!Applied, Rule!Applied, Setting!Applied, Project!Cardinality, Rule!Cardinality,
         Setting!Cardinality, Project!IsFiniteSet, Rule!IsFiniteSet, Setting!IsFiniteSet
<1>3. ASSUME NEW q
      PROVE  Project!Result(q) = Rule!Result(q)
  BY DEF Project!Result, Rule!Result
<1> QED BY <1>1, <1>2, <1>3

-----------------------------------------------------------------------------
(* The form for a project (CreateProjectPage)                              *)

\* The state is what the inputs show, or was reset under them; while the
\* details are shown, in place of the inputs, it is reset.
ProjectInv ==
  /\ Project!TypeOK
  /\ fields.name \in {Project!NoName, inputs.name}
  /\ fields.described => inputs.described
  /\ created => fields = Project!Reset
  /\ Project!ShowsCreated

LEMMA ProjectInit == Project!Init => ProjectInv
<1> SUFFICES ASSUME Project!Init PROVE ProjectInv
  OBVIOUS
<1>1. taken \subseteq ValidNames
  BY SetsAssumption DEF Project!Init
<1>2. /\ Project!Reset \in Project!Fields
      /\ Project!Blank \in [name : Project!Names, described : BOOLEAN]
      /\ Project!NoName \in Project!Names
      /\ Project!Reset.name = Project!NoName /\ ~ Project!Reset.described
  BY DEF Project!Reset, Project!Blank, Project!NoName, Project!Names, Project!Fields
<1>3. fields = Project!Reset /\ inputs = Project!Blank /\ nameError = FALSE /\ created = FALSE
      /\ post = <<>> /\ response = Project!NoName /\ creations = 0
  BY DEF Project!Init
<1>4. creations \in 0 .. MaxCreates
  BY <1>3, Limits
<1> QED BY <1>1, <1>2, <1>3, <1>4 DEF ProjectInv, Project!TypeOK, Project!ShowsCreated

LEMMA ProjectStep ==
  ProjectInv /\ (Project!Next \/ UNCHANGED projectVars) => ProjectInv'
<1> SUFFICES ASSUME ProjectInv, Project!Next \/ UNCHANGED projectVars PROVE ProjectInv'
  OBVIOUS
<1> USE DEF ProjectInv, Project!TypeOK, Project!ShowsCreated, Project!Fields, Project!Names
<1>1. ASSUME NEW name \in Project!Names, Project!handleProjectNameChange(name)
      PROVE  ProjectInv'
  BY <1>1 DEF Project!handleProjectNameChange, Project!validateProjectName
<1>2. CASE Project!EnterDescription
  BY <1>2 DEF Project!EnterDescription
<1>3. CASE Project!SelectPeriod
  BY <1>3 DEF Project!SelectPeriod
<1>4. CASE Project!handleSubmit
  <2>1. CASE Project!Submittable
    <3>1. creations' \in 0 .. MaxCreates
      BY <1>4, <2>1, Limits DEF Project!handleSubmit
    <3> QED BY <1>4, <2>1, <3>1 DEF Project!handleSubmit
  <2>2. CASE ~ Project!Submittable
    BY <1>4, <2>2 DEF Project!handleSubmit
  <2> QED BY <2>1, <2>2
<1>5. CASE Project!ProjectCreated
  <2>1. PICK q \in Project!Query :
          /\ Project!Applied(q) > 0 => Project!Acceptable /\ Project!Applied(q) = 1
          /\ \/ taken' = IF Project!Applied(q) > 0 THEN taken \cup {post[1].name} ELSE taken
             \/ /\ Project!Result(q) = "refused" /\ Project!Acceptable
                /\ taken' = taken \cup {post[1].name}
          /\ created' = (Project!Result(q) = "done")
          /\ nameError' = IF created' THEN nameError ELSE TRUE
          /\ response' = IF created' THEN post[1].name ELSE Project!NoName
    BY <1>5 DEF Project!ProjectCreated
  <2>2. Project!Applied(q) \in {0, 1} /\ (Project!Result(q) = "done" => Project!Applied(q) = 1)
    BY QueryFacts, SameQuery
  <2>3. /\ post # <<>> /\ post' = <<>> /\ fields' = Project!Reset
        /\ UNCHANGED <<inputs, creations>>
    BY <1>5 DEF Project!ProjectCreated
  <2>4. Project!Acceptable => post[1].name \in ValidNames
    BY DEF Project!Acceptable
  <2>5. post[1] \in Project!Fields
    BY <2>3
  <2>6. taken' \subseteq ValidNames /\ response' \in Project!Names /\ created' \in BOOLEAN
        /\ nameError' \in BOOLEAN
    BY <2>1, <2>2, <2>4, <2>5 DEF Project!NoName
  <2>7. created' => response' \in taken'
    <3>0. created' => Project!Result(q) = "done"
      BY ONLY <2>1
    <3>1. created' => Project!Applied(q) > 0 /\ Project!Result(q) # "refused"
      BY ONLY <2>2, <3>0
    <3>2. created' => response' = post[1].name /\ taken' = taken \cup {post[1].name}
      BY <2>1, <3>1
    <3> QED BY <3>2
  <2> QED BY <2>3, <2>6, <2>7 DEF Project!Reset, Project!NoName
<1>6. CASE Project!Back
  <2>1. /\ created /\ created' = FALSE /\ inputs' = Project!Blank
        /\ UNCHANGED <<fields, nameError, post, response, taken, creations>>
    BY <1>6 DEF Project!Back
  <2>2. /\ Project!Blank \in [name : Project!Names, described : BOOLEAN]
        /\ Project!Reset.name = Project!NoName /\ ~ Project!Reset.described
    BY DEF Project!Blank, Project!Reset, Project!NoName
  <2>3. fields = Project!Reset
    BY <2>1
  <2> QED BY <2>1, <2>2, <2>3
<1>7. CASE UNCHANGED projectVars
  BY <1>7 DEF projectVars
<1> QED BY <1>1, <1>2, <1>3, <1>4, <1>5, <1>6, <1>7 DEF Project!Next

\* What is posted has the name that the input shows, and a description only if
\* the input shows one.
LEMMA ProjectPosts ==
  ProjectInv /\ (Project!Next \/ UNCHANGED projectVars) /\ post' # <<>> /\ post = <<>>
    => /\ post'[1].name \in ValidNames /\ post'[1].name = inputs.name
       /\ post'[1].described => inputs.described
<1> SUFFICES ASSUME ProjectInv, Project!Next \/ UNCHANGED projectVars, post' # <<>>, post = <<>>
             PROVE  /\ post'[1].name \in ValidNames /\ post'[1].name = inputs.name
                    /\ post'[1].described => inputs.described
  OBVIOUS
<1>1. Project!handleSubmit /\ Project!Submittable
  BY DEF Project!Next, Project!handleProjectNameChange, Project!EnterDescription,
         Project!SelectPeriod, Project!handleSubmit, Project!ProjectCreated, Project!Back,
         projectVars
<1>2. post' = <<fields>> /\ fields.name \in ValidNames
  BY <1>1 DEF Project!handleSubmit, Project!Submittable, Project!validateProjectName
<1>3. fields.name # Project!NoName
  BY <1>2, SetsAssumption DEF Project!NoName
<1> QED BY <1>2, <1>3 DEF ProjectInv

-----------------------------------------------------------------------------
(* The settings (SettingsPage)                                             *)

\* What the query has read is what the server has, unless an invalidation says
\* that it may not be; and when nothing is under way the page shows it.
SettingInv ==
  /\ Setting!TypeOK
  /\ query.pending /\ ~ query.invalid => query.read \in {Setting!NotSet, setting}
  /\ Setting!ShowsStored

LEMMA SettingInit == Setting!Init => SettingInv
<1> SUFFICES ASSUME Setting!Init PROVE SettingInv
  OBVIOUS
<1>1. setting \in Settings
  BY SetsAssumption DEF Setting!Init, Setting!Some
<1>2. /\ query.pending /\ query.read = Setting!NotSet
      /\ query \in [pending : BOOLEAN, read : Settings \cup {Setting!NotSet}, invalid : BOOLEAN]
  BY DEF Setting!Init, Setting!Asked
<1>3. /\ project = Setting!NotSet /\ settingForm = Setting!NotSet
      /\ isEditing = FALSE /\ saving = Setting!NotSet /\ settingFailed = FALSE
      /\ saves \in 0 .. MaxSaves
  BY Limits DEF Setting!Init
<1> QED BY <1>1, <1>2, <1>3 DEF SettingInv, Setting!TypeOK, Setting!ShowsStored

LEMMA SettingStep ==
  SettingInv /\ (Setting!Next \/ UNCHANGED settingVars) => SettingInv'
<1> SUFFICES ASSUME SettingInv, Setting!Next \/ UNCHANGED settingVars PROVE SettingInv'
  OBVIOUS
<1> USE DEF SettingInv, Setting!TypeOK, Setting!ShowsStored
<1>1. CASE Setting!ReadProject
  <2>1. query' = [query EXCEPT !.read = setting] /\ query.pending
        /\ UNCHANGED <<setting, project, settingForm, isEditing, saving, settingFailed, saves>>
    BY <1>1 DEF Setting!ReadProject
  <2> QED BY <2>1
<1>2. CASE Setting!ProjectAnswered
  <2>1. /\ query.pending
        /\ \/ /\ query.read # Setting!NotSet
              /\ project' = query.read /\ settingFailed' = FALSE
              /\ settingForm' \in {settingForm, project'}
           \/ settingFailed' = TRUE /\ UNCHANGED <<project, settingForm>>
        /\ UNCHANGED <<setting, isEditing, saving, saves>>
    BY <1>2 DEF Setting!ProjectAnswered
  <2>2. \/ query' = Setting!Asked
        \/ /\ query' = [query EXCEPT !.pending = FALSE, !.read = Setting!NotSet]
           /\ ~ query.invalid \/ saving # Setting!NotSet
    BY <1>2 DEF Setting!ProjectAnswered
  <2>3. CASE query' = Setting!Asked
    BY <2>1, <2>3 DEF Setting!Asked
  <2>4. CASE /\ query' = [query EXCEPT !.pending = FALSE, !.read = Setting!NotSet]
             /\ ~ query.invalid \/ saving # Setting!NotSet
    BY <2>1, <2>4
  <2> QED BY <2>2, <2>3, <2>4
<1>3. CASE Setting!handleEditToggle
  BY <1>3 DEF Setting!handleEditToggle
<1>4. CASE Setting!handleInputChange
  BY <1>4 DEF Setting!handleInputChange
<1>5. CASE Setting!handleSaveChanges
  <2>1. saves' \in 0 .. MaxSaves
    BY <1>5, Limits DEF Setting!handleSaveChanges
  <2> QED BY <1>5, <2>1 DEF Setting!handleSaveChanges, Setting!Enabled
<1>6. CASE Setting!ProjectUpdated
  <2>1. PICK q \in Setting!Query :
          /\ setting' = IF Setting!Applied(q) > 0 THEN saving ELSE setting
          /\ query' = IF query.pending
                      THEN [query EXCEPT !.invalid = @ \/ Setting!Invalidates(q)]
                      ELSE Setting!Asked
    BY <1>6 DEF Setting!ProjectUpdated
  <2>2. Setting!Invalidates(q) \in BOOLEAN /\ (~ Setting!Invalidates(q) => setting' = setting)
    BY <2>1, QueryFacts, SameQuery DEF Setting!Invalidates
  <2>3. /\ saving # Setting!NotSet /\ saving' = Setting!NotSet /\ isEditing' = FALSE
        /\ UNCHANGED <<project, settingForm, settingFailed, saves>>
    BY <1>6 DEF Setting!ProjectUpdated
  <2>4. setting' \in Settings
    BY <2>1, <2>3
  <2>5. CASE query.pending
    <3> DEFINE v == Setting!Invalidates(q)
    <3>1. query' = [query EXCEPT !.invalid = @ \/ v]
      BY <2>1, <2>5
    <3>2. v \in BOOLEAN /\ (~ v => setting' = setting)
      BY <2>2
    <3> HIDE DEF v
    <3>3. /\ query' \in [pending : BOOLEAN, read : Settings \cup {Setting!NotSet},
                         invalid : BOOLEAN]
          /\ query'.pending /\ query'.read = query.read
          /\ ~ query'.invalid => ~ query.invalid /\ ~ v
      BY <2>5, <3>1, <3>2
    <3>4. saves' \in 0 .. MaxSaves /\ project' = project /\ settingFailed' = settingFailed
          /\ {project', settingForm', saving'} \subseteq Settings \cup {Setting!NotSet}
      BY <2>3
    <3>5. ~ query'.invalid => query'.read \in {Setting!NotSet, setting'}
      BY <2>5, <3>2, <3>3
    <3> QED BY <2>3, <2>4, <3>3, <3>4, <3>5
  <2>6. CASE ~ query.pending
    BY <2>1, <2>3, <2>4, <2>6 DEF Setting!Asked
  <2> QED BY <2>5, <2>6
<1>7. CASE UNCHANGED settingVars
  BY <1>7 DEF settingVars
<1> QED BY <1>1, <1>2, <1>3, <1>4, <1>5, <1>6, <1>7 DEF Setting!Next

-----------------------------------------------------------------------------
(* The form for alert rules (RuleForm)                                     *)

\* Only addresses that are verified are listed and selected, and the value for
\* the log filter belongs to its field.
Selected ==
  /\ emails.listed \cup emails.read \subseteq verified
  /\ dest.selectedEmails \in verified \cup {Rule!NoEmail}
  /\ form.log_field_value \in Rule!Values(form.log_field) \cup {""}

\* At most one request is under way, the last one, for the present filling, of
\* which no rule is stored yet; and each filling has taken a request.
Posted ==
  /\ posts \subseteq {<<rules, filling>>}
  /\ filling <= rules + 1 /\ (posts # {} => filling <= rules)
  /\ \A f \in Rule!Fillings : stored[f] <= 1 /\ (f >= filling => stored[f] = 0)

RuleInv == Rule!TypeOK /\ Selected /\ Posted

LEMMA RuleInit == Rule!Init => RuleInv
<1> SUFFICES ASSUME Rule!Init PROVE RuleInv
  OBVIOUS
<1>1. /\ form = Rule!Empty
      /\ dest = [email |-> FALSE, webhook |-> FALSE, selectedEmails |-> Rule!NoEmail,
                 webhookUrl |-> FALSE]
      /\ emails = [listed |-> {}, asked |-> TRUE, read |-> {}]
      /\ posts = {} /\ filling = 1
      /\ verified = {} /\ code = [e \in Emails |-> "none"]
      /\ stored = [f \in Rule!Fillings |-> 0]
      /\ rules = 0 /\ mails = 0
  BY DEF Rule!Init
<1>2. form \in Rule!Form /\ form.log_field_value = ""
  BY <1>1 DEF Rule!Empty, Rule!Form, Rule!LogFields
<1>3. PICK e \in Emails :
        dialog = [email |-> FALSE, otp |-> FALSE, creating |-> Rule!NoEmail,
                  otpAddress |-> e, entered |-> "", verifying |-> ""]
  BY SetsAssumption DEF Rule!Init
<1>4. filling \in Rule!Fillings /\ rules \in 0 .. MaxRules /\ mails \in 0 .. MaxMails
      /\ stored \in [Rule!Fillings -> Nat]
  BY <1>1, Limits DEF Rule!Fillings
<1>5. /\ dialog \in [email : BOOLEAN, otp : BOOLEAN,
                     creating : Emails \cup {Rule!NoEmail}, otpAddress : Emails,
                     entered : {"", "right", "wrong"}, verifying : {"", "right", "wrong"}]
      /\ emails \in [listed : SUBSET Emails, asked : BOOLEAN, read : SUBSET Emails]
      /\ dest \in [email : BOOLEAN, webhook : BOOLEAN,
                   selectedEmails : Emails \cup {Rule!NoEmail}, webhookUrl : BOOLEAN]
  BY <1>1, <1>3
<1>6. Rule!TypeOK
  BY <1>1, <1>2, <1>4, <1>5 DEF Rule!TypeOK
<1>7. Selected
  BY <1>1, <1>2 DEF Selected
<1>8. Posted
  BY <1>1, <1>4 DEF Posted
<1> QED BY <1>6, <1>7, <1>8 DEF RuleInv

\* What the user does to the form and to the destinations.
LEMMA RuleFilledIn ==
  RuleInv /\ UNCHANGED <<emails, posts, filling, verified, code, stored, rules, mails>>
    /\ UNCHANGED dialog
    /\ form' \in Rule!Form
    /\ form'.log_field_value \in Rule!Values(form'.log_field) \cup {""}
    /\ dest' \in [email : BOOLEAN, webhook : BOOLEAN,
                  selectedEmails : Emails \cup {Rule!NoEmail}, webhookUrl : BOOLEAN]
    /\ dest'.selectedEmails \in verified \cup {Rule!NoEmail}
    => RuleInv'
<1> SUFFICES ASSUME RuleInv,
                    UNCHANGED <<emails, posts, filling, verified, code, stored, rules, mails>>,
                    UNCHANGED dialog,
                    form' \in Rule!Form,
                    form'.log_field_value \in Rule!Values(form'.log_field) \cup {""},
                    dest' \in [email : BOOLEAN, webhook : BOOLEAN,
                               selectedEmails : Emails \cup {Rule!NoEmail},
                               webhookUrl : BOOLEAN],
                    dest'.selectedEmails \in verified \cup {Rule!NoEmail}
             PROVE  RuleInv'
  OBVIOUS
<1>1. Rule!TypeOK'
  BY DEF RuleInv, Rule!TypeOK
<1>2. Selected'
  BY DEF RuleInv, Selected
<1>3. Posted'
  BY DEF RuleInv, Posted
<1> QED BY <1>1, <1>2, <1>3 DEF RuleInv

\* What the user does to the dialogs, and the server to codes and addresses.
LEMMA RuleMailed ==
  RuleInv /\ UNCHANGED <<form, dest, posts, filling, stored, rules>>
    /\ dialog' \in [email : BOOLEAN, otp : BOOLEAN,
                    creating : Emails \cup {Rule!NoEmail}, otpAddress : Emails,
                    entered : {"", "right", "wrong"}, verifying : {"", "right", "wrong"}]
    /\ emails' \in [listed : SUBSET Emails, asked : BOOLEAN, read : SUBSET Emails]
    /\ emails'.listed \cup emails'.read \subseteq verified'
    /\ verified \subseteq verified' /\ verified' \subseteq Emails
    /\ code' \in [Emails -> {"none", "valid", "expired"}]
    /\ mails' \in 0 .. MaxMails
    => RuleInv'
<1> SUFFICES ASSUME RuleInv, UNCHANGED <<form, dest, posts, filling, stored, rules>>,
                    dialog' \in [email : BOOLEAN, otp : BOOLEAN,
                                 creating : Emails \cup {Rule!NoEmail}, otpAddress : Emails,
                                 entered : {"", "right", "wrong"},
                                 verifying : {"", "right", "wrong"}],
                    emails' \in [listed : SUBSET Emails, asked : BOOLEAN, read : SUBSET Emails],
                    emails'.listed \cup emails'.read \subseteq verified',
                    verified \subseteq verified', verified' \subseteq Emails,
                    code' \in [Emails -> {"none", "valid", "expired"}],
                    mails' \in 0 .. MaxMails
             PROVE  RuleInv'
  OBVIOUS
<1>1. Rule!TypeOK'
  BY DEF RuleInv, Rule!TypeOK
<1>2. Selected'
  BY DEF RuleInv, Selected
<1>3. Posted'
  BY DEF RuleInv, Posted
<1> QED BY <1>1, <1>2, <1>3 DEF RuleInv

LEMMA RuleStep ==
  RuleInv /\ (Rule!Next \/ UNCHANGED ruleVars) => RuleInv'
<1> SUFFICES ASSUME RuleInv, Rule!Next \/ UNCHANGED ruleVars PROVE RuleInv'
  OBVIOUS
<1> DEFINE Dest == [email : BOOLEAN, webhook : BOOLEAN,
                    selectedEmails : Emails \cup {Rule!NoEmail}, webhookUrl : BOOLEAN]
           Dialog == [email : BOOLEAN, otp : BOOLEAN,
                      creating : Emails \cup {Rule!NoEmail}, otpAddress : Emails,
                      entered : {"", "right", "wrong"}, verifying : {"", "right", "wrong"}]
           Addresses == [listed : SUBSET Emails, asked : BOOLEAN, read : SUBSET Emails]
           Codes == [Emails -> {"none", "valid", "expired"}]
<1>t. /\ form \in Rule!Form /\ dest \in Dest /\ dialog \in Dialog /\ emails \in Addresses
      /\ posts \subseteq (1 .. MaxRules) \X Rule!Fillings /\ filling \in Rule!Fillings
      /\ verified \subseteq Emails /\ code \in Codes /\ stored \in [Rule!Fillings -> Nat]
      /\ rules \in 0 .. MaxRules /\ mails \in 0 .. MaxMails
  BY DEF RuleInv, Rule!TypeOK
<1>s. /\ emails.listed \cup emails.read \subseteq verified
      /\ dest.selectedEmails \in verified \cup {Rule!NoEmail}
      /\ form.log_field_value \in Rule!Values(form.log_field) \cup {""}
  BY DEF RuleInv, Selected
<1>n. /\ mails \in Nat /\ rules \in Nat /\ filling \in Nat /\ filling \in 1 .. MaxRules + 1
      /\ MaxMails \in Nat /\ MaxRules \in Nat /\ rules <= MaxRules
  <2>1. mails \in 0 .. MaxMails /\ rules \in 0 .. MaxRules /\ filling \in 1 .. MaxRules + 1
    BY <1>t DEF Rule!Fillings
  <2> QED BY ONLY <2>1, Limits
<1>m. mails < MaxMails => mails + 1 \in 0 .. MaxMails
  BY ONLY <1>n
<1>f. ASSUME UNCHANGED <<dest, dialog, emails, posts, filling, verified, code, stored, rules,
                         mails>>,
             form' \in Rule!Form,
             form'.log_field_value \in Rule!Values(form'.log_field) \cup {""}
      PROVE  RuleInv'
  BY <1>f, <1>t, <1>s, RuleFilledIn
<1>d. ASSUME UNCHANGED <<form, dialog, emails, posts, filling, verified, code, stored, rules,
                         mails>>,
             dest' \in Dest, dest'.selectedEmails \in verified \cup {Rule!NoEmail}
      PROVE  RuleInv'
  BY <1>d, <1>t, <1>s, RuleFilledIn
<1>g. ASSUME UNCHANGED <<form, dest, emails, posts, filling, verified, stored, rules>>,
             dialog' \in Dialog, code' \in Codes, mails' \in 0 .. MaxMails
      PROVE  RuleInv'
  BY <1>g, <1>t, <1>s, RuleMailed
<1>1. ASSUME NEW t \in RuleTypes, Rule!ChooseType(t)
      PROVE  RuleInv'
  <2>1. form' = [form EXCEPT !.type = t]
        /\ UNCHANGED <<dest, dialog, emails, posts, filling, verified, code, stored, rules, mails>>
    BY <1>1 DEF Rule!ChooseType, Rule!server
  <2>2. form' \in Rule!Form /\ form'.log_field = form.log_field
        /\ form'.log_field_value = form.log_field_value
    BY <1>t, <2>1 DEF Rule!Form
  <2> QED BY <1>f, <1>s, <2>1, <2>2
<1>2. ASSUME NEW f \in Rule!LogFields, Rule!handleLogFilterTypeChange(f)
      PROVE  RuleInv'
  <2>1. form' = [form EXCEPT !.log_field = f, !.log_field_value = ""]
        /\ UNCHANGED <<dest, dialog, emails, posts, filling, verified, code, stored, rules, mails>>
    BY <1>2 DEF Rule!handleLogFilterTypeChange, Rule!FilterType, Rule!server
  <2>2. form' \in Rule!Form /\ form'.log_field_value = ""
    BY <1>t, <2>1 DEF Rule!Form
  <2> QED BY <1>f, <2>1, <2>2
<1>3. CASE Rule!EnterThreshold
  <2>1. form' = [form EXCEPT !.threshold = ~ @]
        /\ UNCHANGED <<dest, dialog, emails, posts, filling, verified, code, stored, rules, mails>>
    BY <1>3 DEF Rule!EnterThreshold, Rule!server
  <2>2. form' \in Rule!Form /\ form'.log_field = form.log_field
        /\ form'.log_field_value = form.log_field_value
    BY <1>t, <2>1 DEF Rule!Form
  <2> QED BY <1>f, <1>s, <2>1, <2>2
<1>4. CASE Rule!ChooseLogValue
  <2>1. PICK v \in Rule!Values(form.log_field) : form' = [form EXCEPT !.log_field_value = v]
    BY <1>4 DEF Rule!ChooseLogValue
  <2>2. UNCHANGED <<dest, dialog, emails, posts, filling, verified, code, stored, rules, mails>>
    BY <1>4 DEF Rule!ChooseLogValue, Rule!server
  <2>3. v \in Rule!AllValues
    BY <2>1 DEF Rule!Values, Rule!AllValues
  <2>4. form' \in Rule!Form /\ form'.log_field = form.log_field /\ form'.log_field_value = v
    BY <1>t, <2>1, <2>3 DEF Rule!Form
  <2> QED BY <1>f, <2>1, <2>2, <2>4
<1>5. CASE Rule!EnterWebhook
  <2>1. dest' = [dest EXCEPT !.webhookUrl = ~ @]
        /\ UNCHANGED <<form, dialog, emails, posts, filling, verified, code, stored, rules, mails>>
    BY <1>5 DEF Rule!EnterWebhook, Rule!server
  <2>2. dest' \in Dest /\ dest'.selectedEmails = dest.selectedEmails
    BY <1>t, <2>1
  <2> QED BY <1>d, <1>s, <2>1, <2>2
<1>6. ASSUME NEW method \in {"email", "webhook"}, Rule!ToggleMethod(method)
      PROVE  RuleInv'
  <2>1. dest' = [dest EXCEPT ![method] = ~ @]
        /\ UNCHANGED <<form, dialog, emails, posts, filling, verified, code, stored, rules, mails>>
    BY <1>6 DEF Rule!ToggleMethod, Rule!server
  <2>2. dest' \in Dest /\ dest'.selectedEmails = dest.selectedEmails
    <3>1. CASE method = "email"
      BY <1>t, <2>1, <3>1
    <3>2. CASE method = "webhook"
      BY <1>t, <2>1, <3>2
    <3> QED BY <3>1, <3>2
  <2> QED BY <1>d, <1>s, <2>1, <2>2
<1>7. ASSUME NEW e \in Emails, Rule!SelectEmail(e)
      PROVE  RuleInv'
  <2>1. dest' = [dest EXCEPT !.selectedEmails = e] /\ e \in emails.listed
        /\ UNCHANGED <<form, dialog, emails, posts, filling, verified, code, stored, rules, mails>>
    BY <1>7 DEF Rule!SelectEmail, Rule!server
  <2>2. dest' \in Dest /\ dest'.selectedEmails = e
    BY <1>t, <2>1
  <2> QED BY <1>d, <1>s, <2>1, <2>2
<1>8. ASSUME NEW e \in Emails, Rule!handleCreateEmail(e) \/ Rule!CodeExpires(e)
      PROVE  RuleInv'
  <2>1. CASE Rule!handleCreateEmail(e)
    <3>1. dialog' = [dialog EXCEPT !.creating = e] /\ mails < MaxMails /\ mails' = mails + 1
          /\ UNCHANGED <<form, dest, emails, posts, filling, verified, code, stored, rules>>
      BY <2>1 DEF Rule!handleCreateEmail, Rule!server
    <3>2. dialog' \in Dialog
      BY <1>t, <3>1
    <3> QED BY <1>t, <1>m, <1>g, <3>1, <3>2
  <2>2. CASE Rule!CodeExpires(e)
    <3>1. code' = [code EXCEPT ![e] = "expired"]
          /\ UNCHANGED <<form, dest, dialog, emails, posts, filling, verified, stored, rules, mails>>
      BY <2>2 DEF Rule!CodeExpires
    <3>2. code' \in Codes
      BY <1>t, <3>1
    <3> QED BY <1>t, <1>g, <3>1, <3>2
  <2> QED BY <1>8, <2>1, <2>2
<1>9. CASE Rule!ToggleEmailDialog
  <2>1. dialog' = [dialog EXCEPT !.email = ~ @]
        /\ UNCHANGED <<form, dest, emails, posts, filling, verified, code, stored, rules, mails>>
    BY <1>9 DEF Rule!ToggleEmailDialog, Rule!server
  <2>2. dialog' \in Dialog
    BY <1>t, <2>1
  <2> QED BY <1>t, <1>g, <2>1, <2>2
<1>10. CASE Rule!CloseOtpDialog
  <2>1. dialog' = [dialog EXCEPT !.otp = FALSE]
        /\ UNCHANGED <<form, dest, emails, posts, filling, verified, code, stored, rules, mails>>
    BY <1>10 DEF Rule!CloseOtpDialog, Rule!server
  <2>2. dialog' \in Dialog
    BY <1>t, <2>1
  <2> QED BY <1>t, <1>g, <2>1, <2>2
<1>11. CASE Rule!EnterCode
  <2>1. PICK c \in {"", "right", "wrong"} : dialog' = [dialog EXCEPT !.entered = c]
    BY <1>11 DEF Rule!EnterCode
  <2>2. UNCHANGED <<form, dest, emails, posts, filling, verified, code, stored, rules, mails>>
    BY <1>11 DEF Rule!EnterCode, Rule!server
  <2>3. dialog' \in Dialog
    BY <1>t, <2>1
  <2> QED BY <1>t, <1>g, <2>2, <2>3
<1>12. CASE Rule!EmailCreated
  <2> DEFINE e == dialog.creating
  <2>1. PICK q \in Rule!Query :
          /\ code' = IF Rule!Applied(q) > 0 THEN [code EXCEPT ![e] = "valid"] ELSE code
          /\ dialog' =
               IF Rule!Result(q) = "done"
               THEN [dialog EXCEPT !.creating = Rule!NoEmail, !.email = FALSE,
                                   !.otp = TRUE, !.otpAddress = e, !.entered = ""]
               ELSE [dialog EXCEPT !.creating = Rule!NoEmail,
                                   !.entered = IF Rule!Applied(q) > 0 /\ @ = "right"
                                                  /\ dialog.otpAddress = e
                                               THEN "wrong" ELSE @]
    BY <1>12 DEF Rule!EmailCreated
  <2>2. /\ e # Rule!NoEmail
        /\ UNCHANGED <<form, dest, emails, posts, filling, verified, stored, rules, mails>>
    BY <1>12 DEF Rule!EmailCreated
  <2>3. e \in Emails
    BY <1>t, <2>2
  <2>4. dialog' \in Dialog
    <3>1. CASE Rule!Result(q) = "done"
      BY <1>t, <2>1, <2>3, <3>1
    <3>2. CASE Rule!Result(q) # "done"
      <4>1. PICK v \in {dialog.entered, "wrong"} :
              dialog' = [dialog EXCEPT !.creating = Rule!NoEmail, !.entered = v]
        BY <1>t, <2>1, <3>2
      <4> QED BY <1>t, <4>1
    <3> QED BY <3>1, <3>2
  <2>5. code' \in Codes
    BY <1>t, <2>1, <2>3
  <2> QED BY <1>t, <1>g, <2>2, <2>4, <2>5
<1>13. CASE Rule!handleVerifyEmail
  <2>1. dialog' = [dialog EXCEPT !.verifying = dialog.entered]
        /\ mails < MaxMails /\ mails' = mails + 1
        /\ UNCHANGED <<form, dest, emails, posts, filling, verified, code, stored, rules>>
    BY <1>13 DEF Rule!handleVerifyEmail, Rule!server
  <2>2. dialog' \in Dialog
    BY <1>t, <2>1
  <2> QED BY <1>t, <1>m, <1>g, <2>1, <2>2
<1>14. CASE Rule!EmailVerified
  <2> DEFINE e == dialog.otpAddress
  <2>1. PICK q \in Rule!Query :
          /\ verified' = IF Rule!Applied(q) > 0 THEN verified \cup {e} ELSE verified
          /\ dialog' = IF Rule!Result(q) = "done"
                       THEN [dialog EXCEPT !.verifying = "", !.otp = FALSE]
                       ELSE [dialog EXCEPT !.verifying = "",
                               !.entered = IF @ = dialog.verifying THEN "" ELSE @]
    BY <1>14 DEF Rule!EmailVerified
  <2>2. emails' = [emails EXCEPT !.asked = TRUE]
        /\ UNCHANGED <<form, dest, posts, filling, code, stored, rules, mails>>
    BY <1>14 DEF Rule!EmailVerified, Rule!Refetched
  <2>3. dialog' \in Dialog
    <3>1. CASE Rule!Result(q) = "done"
      BY <1>t, <2>1, <3>1
    <3>2. CASE Rule!Result(q) # "done"
      <4>1. PICK v \in {dialog.entered, ""} :
              dialog' = [dialog EXCEPT !.verifying = "", !.entered = v]
        BY <1>t, <2>1, <3>2
      <4> QED BY <1>t, <4>1
    <3> QED BY <3>1, <3>2
  <2>4. verified \subseteq verified' /\ verified' \subseteq Emails
    BY <1>t, <2>1
  <2>5. /\ emails' \in Addresses /\ emails'.listed = emails.listed /\ emails'.read = emails.read
    BY <1>t, <2>2
  <2>6. emails'.listed \cup emails'.read \subseteq verified'
    BY <1>s, <2>4, <2>5
  <2> HIDE DEF e
  <2> QED BY <1>t, <2>2, <2>3, <2>4, <2>5, <2>6, RuleMailed
<1>15. CASE Rule!ReadEmails \/ Rule!EmailsAnswered
  <2>1. UNCHANGED <<form, dest, dialog, posts, filling, verified, code, stored, rules, mails>>
    BY <1>15 DEF Rule!ReadEmails, Rule!EmailsAnswered, Rule!server
  <2>2. emails' \in Addresses /\ emails'.listed \cup emails'.read \subseteq verified'
    <3>1. CASE Rule!ReadEmails
      <4>1. emails' = [emails EXCEPT !.read = verified]
        BY <3>1 DEF Rule!ReadEmails
      <4> QED BY <1>t, <1>s, <2>1, <4>1
    <3>2. CASE Rule!EmailsAnswered
      <4>1. PICK l \in {emails.read, emails.listed} :
              emails' = [listed |-> l, asked |-> FALSE, read |-> {}]
        BY <3>2 DEF Rule!EmailsAnswered
      <4> QED BY <1>t, <1>s, <2>1, <4>1
    <3> QED BY <1>15, <3>1, <3>2
  <2> QED BY <1>t, <2>1, <2>2, RuleMailed
<1>16. CASE Rule!handleCreateAlert
  <2>1. /\ posts = {} /\ posts' = posts \cup {<<rules', filling>>}
        /\ rules < MaxRules /\ rules' = rules + 1
        /\ UNCHANGED <<form, dest, dialog, emails, filling, verified, code, stored, mails>>
    BY <1>16 DEF Rule!handleCreateAlert, Rule!CreateEnabled, Rule!server
  <2>2. rules' \in 1 .. MaxRules /\ rules' \in 0 .. MaxRules
    BY ONLY <1>n, <2>1
  <2>3. filling <= rules + 1 /\ filling <= rules' /\ filling <= rules' + 1
    <3>1. filling \in Nat /\ rules \in Nat /\ filling <= rules + 1
      BY <1>n DEF RuleInv, Posted
    <3> QED BY ONLY <2>1, <3>1
  <2>4. Posted'
    BY <2>1, <2>3 DEF RuleInv, Posted
  <2>5. Rule!TypeOK'
    <3>1. posts' \subseteq (1 .. MaxRules) \X Rule!Fillings
      <4>1. posts' = {<<rules', filling>>} /\ rules' \in 1 .. MaxRules
        BY <2>1, <2>2
      <4>2. filling \in Rule!Fillings
        BY <1>t
      <4> QED BY ONLY <4>1, <4>2
    <3> HIDE DEF Codes
    <3>2. form' \in Rule!Form /\ dest' \in Dest /\ dialog' \in Dialog /\ emails' \in Addresses
          /\ filling' \in Rule!Fillings /\ verified' \subseteq Emails /\ code' \in Codes
          /\ stored' \in [Rule!Fillings -> Nat] /\ mails' \in 0 .. MaxMails
      BY <1>t, <2>1
    <3> QED BY <2>2, <3>1, <3>2 DEF Rule!TypeOK, Codes
  <2>6. Selected'
    BY <2>1 DEF RuleInv, Selected
  <2> QED BY <2>4, <2>5, <2>6 DEF RuleInv
<1>17. ASSUME NEW p \in posts, Rule!AlertCreated(p)
       PROVE  RuleInv'
  <2>1. /\ p = <<rules, filling>> /\ filling <= rules
        /\ \A f \in Rule!Fillings : stored[f] <= 1 /\ (f >= filling => stored[f] = 0)
    BY <1>17 DEF RuleInv, Posted
  <2>2. PICK n \in {0, 1} : stored' = [stored EXCEPT ![p[2]] = @ + n]
    <3>1. PICK q \in Rule!Query :
            \E n \in Rule!StoredBy(q) : stored' = [stored EXCEPT ![p[2]] = @ + n]
      BY <1>17 DEF Rule!AlertCreated
    <3> QED BY <3>1, QueryFacts
  <2>3. /\ posts' = posts \ {p} /\ form' = Rule!Empty
        /\ dest' = [dest EXCEPT !.selectedEmails = Rule!NoEmail, !.webhookUrl = FALSE]
        /\ filling' = IF p[2] = filling THEN filling + 1 ELSE filling
        /\ UNCHANGED <<dialog, emails, verified, code, rules, mails>>
    BY <1>17 DEF Rule!AlertCreated
  <2>4. posts' = {} /\ filling' = filling + 1
    BY <2>1, <2>3 DEF RuleInv, Posted
  <2>5. filling \in Nat /\ rules \in Nat /\ filling' \in Rule!Fillings /\ filling' <= rules + 1
    <3>1. filling' \in 1 .. MaxRules + 1 /\ filling' <= rules + 1
      BY ONLY <1>n, <2>1, <2>4
    <3> QED BY <1>n, <3>1 DEF Rule!Fillings
  <2>6. /\ stored' \in [Rule!Fillings -> Nat]
        /\ stored'[filling] \in {0, 1}
        /\ \A f \in Rule!Fillings \ {filling} : stored'[f] = stored[f]
    <3>1. n \in {0, 1}
      BY <2>2
    <3>2. stored' = [stored EXCEPT ![filling] = @ + n] /\ stored[filling] = 0
      <4>1. p[2] = filling
        BY <2>1
      <4>2. filling \in Rule!Fillings /\ filling >= filling
        <5>1. filling >= filling
          BY ONLY <1>n
        <5> QED BY <1>t, <5>1
      <4> QED BY <2>1, <2>2, <4>1, <4>2
    <3>3. stored \in [Rule!Fillings -> Nat] /\ filling \in Rule!Fillings
      BY <1>t
    <3>4. stored' = [stored EXCEPT ![filling] = n]
      <4>1. stored[filling] + n = n
        BY ONLY <3>1, <3>2
      <4> QED BY ONLY <3>2, <3>3, <4>1
    <3> QED BY ONLY <3>1, <3>3, <3>4
  <2>7. \A f \in Rule!Fillings : stored'[f] <= 1 /\ (f >= filling' => stored'[f] = 0)
    <3>1. \A f \in Rule!Fillings : f \in Nat
      BY Limits DEF Rule!Fillings
    <3> QED BY <2>1, <2>4, <2>5, <2>6, <3>1
  <2>8. Posted'
    BY <2>3, <2>4, <2>5, <2>7 DEF Posted
  <2>9. /\ form' \in Rule!Form /\ form'.log_field_value = ""
        /\ dest' \in Dest /\ dest'.selectedEmails = Rule!NoEmail
    BY <1>t, <2>3 DEF Rule!Empty, Rule!Form, Rule!LogFields
  <2>10. Rule!TypeOK'
    BY <1>t, <2>3, <2>4, <2>5, <2>6, <2>9 DEF Rule!TypeOK
  <2>11. Selected'
    BY <2>3, <2>9 DEF RuleInv, Selected
  <2> QED BY <2>8, <2>10, <2>11 DEF RuleInv
<1>18. CASE UNCHANGED ruleVars
  <2>1. UNCHANGED <<form, dest, dialog, emails, posts, filling, verified, code, stored, rules,
                    mails>>
    BY <1>18 DEF ruleVars
  <2> QED BY <1>f, <1>t, <1>s, <2>1
<1> QED BY <1>1, <1>2, <1>3, <1>4, <1>5, <1>6, <1>7, <1>8, <1>9, <1>10, <1>11, <1>12, <1>13,
           <1>14, <1>15, <1>16, <1>17, <1>18
        DEF Rule!Next

\* A rule that is posted is sound.
LEMMA RulePosts ==
  RuleInv /\ (Rule!Next \/ UNCHANGED ruleVars) /\ posts' \ posts # {}
    => /\ form.threshold
       /\ \E d \in Rule!AlertMethods : d[2] # Rule!NoEmail
       /\ \A d \in Rule!AlertMethods : d[1] = "email" => d[2] \in verified \cup {Rule!NoEmail}
       /\ form.log_field_value \in Rule!Values(form.log_field) \cup {""}
<1> SUFFICES ASSUME RuleInv, Rule!Next \/ UNCHANGED ruleVars, posts' \ posts # {}
             PROVE  /\ form.threshold
                    /\ \E d \in Rule!AlertMethods : d[2] # Rule!NoEmail
                    /\ \A d \in Rule!AlertMethods :
                         d[1] = "email" => d[2] \in verified \cup {Rule!NoEmail}
                    /\ form.log_field_value \in Rule!Values(form.log_field) \cup {""}
  OBVIOUS
<1>1. Rule!handleCreateAlert
  BY DEF Rule!Next, Rule!ChooseType, Rule!handleLogFilterTypeChange, Rule!EnterThreshold,
         Rule!ChooseLogValue, Rule!EnterWebhook, Rule!ToggleMethod, Rule!SelectEmail,
         Rule!handleCreateEmail, Rule!CodeExpires, Rule!ToggleEmailDialog, Rule!CloseOtpDialog,
         Rule!EnterCode, Rule!EmailCreated, Rule!handleVerifyEmail, Rule!EmailVerified,
         Rule!ReadEmails, Rule!EmailsAnswered, Rule!AlertCreated, ruleVars
<1>2. /\ form.threshold /\ Rule!AlertMethods # {}
      /\ dest.selectedEmails # Rule!NoEmail \/ dest.webhookUrl
  BY <1>1 DEF Rule!handleCreateAlert, Rule!SomeMethod
<1>3. \A d \in Rule!AlertMethods :
        \/ d = <<"email", dest.selectedEmails>> /\ dest.email
        \/ d = <<"webhook", "url">> /\ dest.webhookUrl
  BY DEF Rule!AlertMethods
<1>4. \E d \in Rule!AlertMethods : d[2] # Rule!NoEmail
  <2>1. CASE dest.webhookUrl
    <3>1. <<"webhook", "url">> \in Rule!AlertMethods
      BY <2>1 DEF Rule!AlertMethods
    <3>2. <<"webhook", "url">>[2] # Rule!NoEmail
      BY DEF Rule!NoEmail
    <3> QED BY <3>1, <3>2
  <2>2. CASE ~ dest.webhookUrl
    BY <1>2, <1>3, <2>2
  <2> QED BY <2>1, <2>2
<1>5. dest.selectedEmails \in verified \cup {Rule!NoEmail}
      /\ form.log_field_value \in Rule!Values(form.log_field) \cup {""}
  BY DEF RuleInv, Selected
<1>6. \A d \in Rule!AlertMethods : d[1] = "email" => d[2] \in verified \cup {Rule!NoEmail}
  <2> SUFFICES ASSUME NEW d \in Rule!AlertMethods, d[1] = "email"
               PROVE  d[2] \in verified \cup {Rule!NoEmail}
    OBVIOUS
  <2>1. d # <<"webhook", "url">>
    OBVIOUS
  <2>2. d[2] = dest.selectedEmails
    BY <1>3, <2>1
  <2> QED BY <1>5, <2>2
<1> QED BY <1>2, <1>4, <1>5, <1>6

-----------------------------------------------------------------------------
(* The stored and the archived logs (LogsPage)                             *)

\* The greater and the smaller of two numbers.
LEMMA MaxOfTwo ==
  ASSUME NEW a \in Int, NEW b \in Int
  PROVE  Logs!Max({a, b}) = IF a >= b THEN a ELSE b
<1>1. \E m \in {a, b} : \A y \in {a, b} : m >= y
  OBVIOUS
<1>2. Logs!Max({a, b}) \in {a, b} /\ \A y \in {a, b} : Logs!Max({a, b}) >= y
  BY <1>1 DEF Logs!Max
<1> QED BY <1>2

LEMMA MinOfTwo ==
  ASSUME NEW a \in Int, NEW b \in Int
  PROVE  Logs!Min({a, b}) = IF a <= b THEN a ELSE b
<1>1. \E m \in {a, b} : \A y \in {a, b} : m <= y
  OBVIOUS
<1>2. Logs!Min({a, b}) \in {a, b} /\ \A y \in {a, b} : Logs!Min({a, b}) <= y
  BY <1>1 DEF Logs!Min
<1> QED BY <1>2

\* The links are some of the pages, at most MaxLinks, and the current one among
\* them if it is a page.
WindowIsRight(page, pages) ==
  /\ Logs!PageNumbers(page, pages) \subseteq 1 .. pages
  /\ page <= pages => page \in Logs!PageNumbers(page, pages)
  /\ Logs!Cardinality(Logs!PageNumbers(page, pages)) <= MaxLinks

LEMMA PageLinks ==
  ASSUME NEW page \in Nat \ {0}, NEW pages \in Nat
  PROVE  WindowIsRight(page, pages)
<1>l. MaxLinks \in Nat \ {0}
  BY Limits
<1>c. ASSUME NEW a \in Int, NEW b \in Int, b - a + 1 <= MaxLinks
      PROVE  Logs!Cardinality(a .. b) <= MaxLinks
  <2>1. Cardinality(a .. b) = IF a > b THEN 0 ELSE b - a + 1
    BY FS_Interval
  <2>2. Logs!Cardinality(a .. b) = Cardinality(a .. b)
    BY DEF Logs!Cardinality, Cardinality, Logs!IsFiniteSet, IsFiniteSet
  <2> QED BY <1>l, <1>c, <2>1, <2>2
<1>1. CASE pages <= MaxLinks
  <2>1. Logs!PageNumbers(page, pages) = 1 .. pages
    BY <1>1 DEF Logs!PageNumbers
  <2>2. Logs!Cardinality(1 .. pages) <= MaxLinks
    BY <1>1, <1>c, <1>l
  <2> QED BY <2>1, <2>2 DEF WindowIsRight
<1>2. CASE ~ (pages <= MaxLinks)
  <2>1. PICK half \in 0 .. MaxLinks - 1 : half = MaxLinks \div 2
    BY <1>l
  <2>2. PICK start \in Int : start = IF 1 >= page - half THEN 1 ELSE page - half
    BY <2>1
  <2>3. PICK end \in Int : end = IF pages <= start + MaxLinks - 1 THEN pages
                                 ELSE start + MaxLinks - 1
    <3>1. start + MaxLinks - 1 \in Int
      BY ONLY <1>l, start \in Int
    <3> QED BY <3>1
  <2>4. PICK low \in Int : low = IF 1 >= end - MaxLinks + 1 THEN 1 ELSE end - MaxLinks + 1
    <3>1. end - MaxLinks + 1 \in Int
      BY ONLY <1>l, end \in Int
    <3> QED BY <3>1
  <2>5. start = Logs!Max({1, page - MaxLinks \div 2})
    BY <2>1, <2>2, MaxOfTwo
  <2>6. end = Logs!Min({pages, start + MaxLinks - 1})
    BY <1>l, <2>3, MinOfTwo
  <2>7. low = Logs!Max({1, end - MaxLinks + 1})
    BY <1>l, <2>4, MaxOfTwo
  <2>8. Logs!PageNumbers(page, pages)
          = (IF end - start + 1 < MaxLinks THEN low ELSE start) .. end
    BY <1>2, <2>5, <2>6, <2>7 DEF Logs!PageNumbers
  <2>9. PICK first \in Int : first = IF end - start + 1 < MaxLinks THEN low ELSE start
    OBVIOUS
  <2>10. /\ 1 <= first /\ end <= pages
         /\ page <= pages => first <= page /\ page <= end
         /\ end - first + 1 <= MaxLinks
    BY ONLY <1>l, <1>2, <2>1, <2>2, <2>3, <2>4, <2>9, page \in Nat \ {0}, pages \in Nat
  <2>11. Logs!PageNumbers(page, pages) = first .. end
    BY ONLY <2>8, <2>9
  <2>12. Logs!Cardinality(first .. end) <= MaxLinks
    BY <1>c, <2>10
  <2> QED BY <2>10, <2>11, <2>12 DEF WindowIsRight
<1> QED BY <1>1, <1>2

\* Every link leads to a page.
LEMMA LinksLead ==
  ASSUME NEW page \in Nat \ {0}, NEW pages \in Nat, page <= pages, WindowIsRight(page, pages)
  PROVE  Logs!PageNumbers(page, pages) \cup {1, pages}
           \cup {Logs!Max({page - 1, 1}), Logs!NextLink(page, pages)} \subseteq 1 .. pages
<1>1. Logs!Max({page - 1, 1}) \in 1 .. pages
  BY MaxOfTwo
<1>2. Logs!NextLink(page, pages) \in 1 .. pages
  BY MinOfTwo DEF Logs!NextLink
<1>3. {1, pages} \subseteq 1 .. pages
  OBVIOUS
<1> QED BY <1>1, <1>2, <1>3 DEF WindowIsRight

\* The list is the answer to the last trigger, once that is answered.
LogsInv ==
  /\ Logs!TypeOK
  /\ ~ jumped => asked = filter
  /\ asked \notin pending /\ ~ failed => list.of = asked

LEMMA LogsShow == LogsInv => Logs!ShowsFilter
<1> SUFFICES ASSUME LogsInv PROVE Logs!ShowsFilter
  OBVIOUS
<1>1. filter.page \in Nat \ {0} /\ list.pages \in Nat
  <2>1. filter \in Logs!Filter /\ list.pages \in 0 .. MaxPages /\ MaxPages \in Nat
    BY Limits DEF LogsInv, Logs!TypeOK
  <2> QED BY <2>1 DEF Logs!Filter
<1>2. WindowIsRight(filter.page, list.pages)
  BY <1>1, PageLinks
<1>3. asked \notin pending /\ ~ failed /\ ~ jumped => list.of = filter
  BY DEF LogsInv
<1>4. filter.page <= list.pages => Logs!Links \subseteq 1 .. list.pages
  BY <1>1, <1>2, LinksLead DEF Logs!Links
<1> QED BY <1>2, <1>3, <1>4 DEF Logs!ShowsFilter, WindowIsRight

LEMMA LogsInit == Logs!Init => LogsInv
<1> SUFFICES ASSUME Logs!Init PROVE LogsInv
  OBVIOUS
<1>1. PICK s \in Sources : filter = Logs!Cleared(s)
  BY SetsAssumption DEF Logs!Init
<1>2. filter \in Logs!Filter
  BY <1>1, Limits DEF Logs!Cleared, Logs!Filter
<1>3. asked = filter /\ pending = {filter} /\ list = [of |-> filter, pages |-> 0]
      /\ failed = FALSE /\ jumped = FALSE /\ asks = 0 /\ answer \in {"awaited", "given"}
  BY DEF Logs!Init
<1>4. 0 \in 0 .. MaxPages /\ 0 \in 0 .. MaxAsks
  BY Limits
<1> QED BY <1>2, <1>3, <1>4 DEF LogsInv, Logs!TypeOK

\* A new trigger for the filter that is shown.
LEMMA LogsTriggered ==
  LogsInv /\ filter' \in Logs!Filter /\ Logs!Trigger(filter') /\ UNCHANGED list
    /\ answer' \in {"awaited", "given", answer}
  => LogsInv'
<1> SUFFICES ASSUME LogsInv, filter' \in Logs!Filter, Logs!Trigger(filter'), UNCHANGED list,
                    answer' \in {"awaited", "given", answer}
             PROVE  LogsInv'
  OBVIOUS
<1>1. asks < MaxAsks /\ asks' = asks + 1 /\ asked' = filter' /\ pending' = pending \cup {filter'}
      /\ failed' = FALSE /\ jumped' = FALSE
  BY DEF Logs!Trigger
<1>2. asks' \in 0 .. MaxAsks
  <2>1. asks \in 0 .. MaxAsks
    BY DEF LogsInv, Logs!TypeOK
  <2> QED BY ONLY <1>1, <2>1, Limits
<1>3. Logs!TypeOK'
  BY <1>1, <1>2 DEF LogsInv, Logs!TypeOK
<1> QED BY <1>1, <1>3 DEF LogsInv

LEMMA LogsStep ==
  LogsInv /\ (Logs!Next \/ UNCHANGED logsVars) => LogsInv'
<1> SUFFICES ASSUME LogsInv, Logs!Next \/ UNCHANGED logsVars PROVE LogsInv'
  OBVIOUS
<1>t. filter \in Logs!Filter
  BY DEF LogsInv, Logs!TypeOK
<1>c. ASSUME NEW f \in Logs!Filter, Logs!Change(f)
      PROVE  LogsInv'
  BY <1>c, LogsTriggered DEF Logs!Change, Logs!Effect
<1>1. CASE Logs!PickDate
  <2>1. PICK d \in BOOLEAN : Logs!Change([filter EXCEPT !.date = d])
    BY <1>1 DEF Logs!PickDate
  <2>2. [filter EXCEPT !.date = d] \in Logs!Filter
    BY <1>t DEF Logs!Filter
  <2> QED BY <1>c, <2>1, <2>2
<1>2. CASE Logs!toggleDateSort
  <2>1. PICK o \in {"asc", "desc"} : Logs!Change([filter EXCEPT !.sortDate = o])
    BY <1>2 DEF Logs!toggleDateSort
  <2>2. [filter EXCEPT !.sortDate = o] \in Logs!Filter
    BY <1>t DEF Logs!Filter
  <2> QED BY <1>c, <2>1, <2>2
<1>3. CASE Logs!SelectLogType
  <2>1. PICK m \in Modes \cup {"all"} : Logs!Change([filter EXCEPT !.logType = m])
    BY <1>3 DEF Logs!SelectLogType
  <2>2. [filter EXCEPT !.logType = m] \in Logs!Filter
    BY <1>t DEF Logs!Filter
  <2> QED BY <1>c, <2>1, <2>2
<1>4. CASE Logs!Refresh
  BY <1>4, <1>t, LogsTriggered DEF Logs!Refresh
<1>5. CASE Logs!clearFilters
  <2>1. filter' = Logs!Cleared(filter.source) /\ Logs!Trigger(filter')
        /\ UNCHANGED <<list, answer>>
    BY <1>5 DEF Logs!clearFilters
  <2>2. filter' \in Logs!Filter
    BY <2>1, <1>t, Limits DEF Logs!Cleared, Logs!Filter
  <2> QED BY <2>1, <2>2, LogsTriggered
<1>6. CASE Logs!GoToPage
  <2>1. PICK p \in Logs!Links : Logs!Change([filter EXCEPT !.page = p])
    BY <1>6 DEF Logs!GoToPage
  <2>2. p \in 1 .. MaxPages
    <3>1. list.pages \in 1 .. MaxPages /\ filter.page \in 1 .. MaxPages
          /\ MaxPages \in Nat
      <4>1. list.pages \in 0 .. MaxPages /\ list.pages > 1 /\ MaxPages \in Nat
        BY <1>6, Limits DEF Logs!GoToPage, LogsInv, Logs!TypeOK
      <4> QED BY <4>1, <1>t DEF Logs!Filter
    <3>2. WindowIsRight(filter.page, list.pages)
      BY <3>1, PageLinks
    <3>3. Logs!PageNumbers(filter.page, list.pages) \subseteq 1 .. MaxPages
      BY <3>1, <3>2 DEF WindowIsRight
    <3>4. Logs!Max({filter.page - 1, 1}) \in 1 .. MaxPages
      BY <3>1, MaxOfTwo
    <3>5. Logs!NextLink(filter.page, list.pages) \in 1 .. MaxPages
      BY <3>1, MinOfTwo DEF Logs!NextLink
    <3> QED BY <2>1, <3>1, <3>3, <3>4, <3>5 DEF Logs!Links
  <2>3. [filter EXCEPT !.page = p] \in Logs!Filter
    BY <1>t, <2>2 DEF Logs!Filter
  <2> QED BY <1>c, <2>1, <2>3
<1>7. CASE Logs!Navigate
  <2>1. PICK s \in Sources : filter' = [filter EXCEPT !.source = s]
    BY <1>7 DEF Logs!Navigate
  <2>2. filter' \in Logs!Filter
    BY <1>t, <2>1 DEF Logs!Filter
  <2>3. CASE jumped' = TRUE /\ UNCHANGED <<asked, pending, failed, list, answer, asks>>
    BY <2>2, <2>3 DEF LogsInv, Logs!TypeOK
  <2>4. CASE answer' \in {"awaited", "given"} /\ Logs!Effect(filter') /\ UNCHANGED list
    BY <2>2, <2>4, LogsTriggered DEF Logs!Effect
  <2> QED BY <1>7, <2>3, <2>4 DEF Logs!Navigate
<1>10. CASE Logs!ProjectAnswered
  BY <1>10 DEF Logs!ProjectAnswered, LogsInv, Logs!TypeOK
<1>8. ASSUME NEW f \in pending, Logs!LogsAnswered(f)
      PROVE  LogsInv'
  <2>1. pending' = pending \ {f} /\ UNCHANGED <<filter, asked, jumped, answer, asks>>
    BY <1>8 DEF Logs!LogsAnswered
  <2>2. CASE \E n \in 1 .. MaxPages :
               f = asked /\ list' = [of |-> f, pages |-> n] /\ failed' = FALSE
    <3>1. PICK n \in 1 .. MaxPages :
            f = asked /\ list' = [of |-> f, pages |-> n] /\ failed' = FALSE
      BY <2>2
    <3>2. n \in 0 .. MaxPages
      BY Limits
    <3> QED BY <2>1, <3>1, <3>2 DEF LogsInv, Logs!TypeOK
  <2>3. CASE f # asked /\ UNCHANGED <<list, failed>>
    BY <2>1, <2>3 DEF LogsInv, Logs!TypeOK
  <2>4. CASE failed' = (failed \/ f = asked) /\ UNCHANGED list
    <3>1. failed' \in BOOLEAN /\ (~ failed' => ~ failed /\ f # asked)
      BY ONLY <2>4
    <3> QED BY <2>1, <2>4, <3>1 DEF LogsInv, Logs!TypeOK
  <2> QED BY <1>8, <2>2, <2>3, <2>4 DEF Logs!LogsAnswered
<1>9. CASE UNCHANGED logsVars
  BY <1>9 DEF logsVars, LogsInv, Logs!TypeOK
<1> QED BY <1>1, <1>2, <1>3, <1>4, <1>5, <1>6, <1>7, <1>8, <1>9, <1>10 DEF Logs!Next

-----------------------------------------------------------------------------
(* The graphs of processor and of memory usage (GraphPage)                 *)

Controls == [from : Graph!Dates, fromTime : Graph!Hours, to : Graph!Dates,
             toTime : Graph!Hours, group : {"hour", "day"}]
Requests == [pending : Seq(Graph!Ranges), asked : Graph!Ranges,
             failed : BOOLEAN, crossed : BOOLEAN]

\* Hours and midnights of the dates there are.
LEMMA Clock ==
  ASSUME NEW d \in Graph!Dates
  PROVE  Graph!Hour(d) \in Graph!Hours /\ Graph!Midnight(d) \in 0 .. Now
<1>1. DayHours \in Nat \ {0} /\ Now \in Nat /\ d \in 0 .. Now
  BY DatesAssumption DEF Graph!Dates
<1>2. PICK h \in 0 .. DayHours - 1 : h = d % DayHours
  BY ONLY <1>1
<1>3. d % DayHours <= d
  BY ONLY <1>1
<1>4. d - h \in 0 .. Now
  BY ONLY <1>1, <1>2, <1>3
<1> QED BY <1>2, <1>4 DEF Graph!Hour, Graph!Hours, Graph!Midnight

LEMMA RangeTyped ==
  ASSUME NEW c \in Controls, NEW name \in ValidNames
  PROVE  /\ Graph!RangeOf(c, name) \in Graph!Ranges
         /\ Graph!ProjectOf(Graph!RangeOf(c, name)) = name
<1>1. DayHours \in Nat \ {0} /\ Now \in Nat
  BY DatesAssumption
<1>2. c.from \in Graph!Dates /\ c.to \in Graph!Dates /\ c.group \in {"hour", "day"}
      /\ c.fromTime \in 0 .. DayHours - 1 /\ c.toTime \in 0 .. DayHours - 1
  BY DEF Controls, Graph!Hours
<1>3. Graph!Midnight(c.from) \in 0 .. Now /\ Graph!Midnight(c.to) \in 0 .. Now
  BY <1>2, Clock
<1>4. Graph!Midnight(c.from) + c.fromTime \in 0 .. Now + DayHours
      /\ Graph!Midnight(c.to) + c.toTime \in 0 .. Now + DayHours
  BY ONLY <1>1, <1>2, <1>3
<1> QED BY <1>2, <1>4 DEF Graph!RangeOf, Graph!Ranges, Graph!ProjectOf

\* Adjusted to the bounds, the dates are between them.
LEMMA Clamped ==
  ASSUME NEW b \in Bounds \cup {<<>>}, NEW c \in Controls
  PROVE  /\ Graph!Clamp(b, c) \in Controls
         /\ b # <<>> => {Graph!Clamp(b, c).from, Graph!Clamp(b, c).to} \subseteq b[1] .. b[2]
<1>1. CASE b = <<>>
  BY <1>1 DEF Graph!Clamp
<1>2. CASE b # <<>>
  <2>1. /\ b[1] \in 0 .. Now /\ b[2] \in 0 .. Now /\ b[1] <= b[2]
        /\ b[1] \in Graph!Dates /\ b[2] \in Graph!Dates
    BY <1>2, DatesAssumption DEF Graph!Dates
  <2>2. Graph!Hour(b[1]) \in Graph!Hours /\ Graph!Hour(b[2]) \in Graph!Hours
    BY <2>1, Clock
  <2>3. c.from \in 0 .. Now /\ c.to \in 0 .. Now /\ Now \in Nat
    BY DatesAssumption DEF Controls, Graph!Dates
  <2> DEFINE Out(d) == d < b[1] \/ d > b[2]
             s == IF Out(c.from)
                  THEN [c EXCEPT !.from = b[1], !.fromTime = Graph!Hour(b[1])] ELSE c
             t == IF Out(c.to)
                  THEN [s EXCEPT !.to = b[2], !.toTime = Graph!Hour(b[2])] ELSE s
  <2>4. Graph!Clamp(b, c) = t
    BY <1>2 DEF Graph!Clamp
  <2>5. s \in Controls /\ s.to = c.to /\ s.from = IF Out(c.from) THEN b[1] ELSE c.from
    BY <2>1, <2>2 DEF Controls
  <2> HIDE DEF s
  <2>6. t \in Controls /\ t.from = s.from /\ t.to = IF Out(c.to) THEN b[2] ELSE c.to
    BY <2>1, <2>2, <2>5 DEF Controls
  <2> HIDE DEF t
  <2>7. t.from \in b[1] .. b[2] /\ t.to \in b[1] .. b[2]
    BY <2>1, <2>3, <2>5, <2>6
  <2> QED BY <2>4, <2>6, <2>7
<1> QED BY <1>1, <1>2

\* The hours to select from are hours, and there is a first and a last of them.
LEMMA HoursOffered ==
  ASSUME bounds \in Bounds \cup {<<>>}, NEW d \in Graph!Dates
  PROVE  /\ Graph!AvailableHours(d) \subseteq Graph!Hours
         /\ Graph!AvailableHours(d) # {}
              => /\ Graph!First(Graph!AvailableHours(d)) \in Graph!Hours
                 /\ Graph!Final(Graph!AvailableHours(d)) \in Graph!Hours
<1>1. CASE bounds = <<>>
  BY <1>1 DEF Graph!AvailableHours
<1>2. CASE bounds # <<>>
  <2>1. bounds[1] \in Graph!Dates /\ bounds[2] \in Graph!Dates
    BY <1>2, DatesAssumption DEF Graph!Dates
  <2>2. 0 \in Graph!Hours /\ DayHours - 1 \in Graph!Hours
    BY DatesAssumption DEF Graph!Hours
  <2>3. \E lo \in Graph!Hours, hi \in Graph!Hours : Graph!AvailableHours(d) = lo .. hi
    <3>1. Graph!Hour(bounds[1]) \in Graph!Hours /\ Graph!Hour(bounds[2]) \in Graph!Hours
      BY <2>1, Clock
    <3> QED BY <1>2, <2>2, <3>1 DEF Graph!AvailableHours
  <2>4. PICK lo \in Graph!Hours, hi \in Graph!Hours : Graph!AvailableHours(d) = lo .. hi
    BY <2>3
  <2>5. lo \in 0 .. DayHours - 1 /\ hi \in 0 .. DayHours - 1 /\ DayHours \in Nat
    BY DatesAssumption DEF Graph!Hours
  <2>6. lo .. hi \subseteq Graph!Hours
    BY <2>5 DEF Graph!Hours
  <2>7. ASSUME lo .. hi # {}
        PROVE  Graph!First(lo .. hi) \in lo .. hi /\ Graph!Final(lo .. hi) \in lo .. hi
    <3>1. lo \in lo .. hi /\ \A k \in lo .. hi : lo <= k
      BY <2>5, <2>7
    <3>2. hi \in lo .. hi /\ \A k \in lo .. hi : k <= hi
      BY <2>5, <2>7
    <3> QED BY <3>1, <3>2 DEF Graph!First, Graph!Final
  <2> QED BY <2>4, <2>6, <2>7
<1> QED BY <1>1, <1>2

\* The last request is the one for the controls c, of some project, and it is
\* the last that is pending, unless answers may have crossed.
RequestFits(r, c) ==
  /\ r \in Requests
  /\ Graph!IsInjective(r.pending)
  /\ r.asked = Graph!RangeOf(c, Graph!ProjectOf(r.asked))
  /\ ~ r.crossed /\ r.pending # <<>> => Graph!Last(r.pending) = r.asked

LEMMA Fetched ==
  ASSUME NEW r \in Requests, Graph!IsInjective(r.pending), NEW c \in Controls,
         NEW name \in ValidNames
  PROVE  /\ RequestFits(Graph!Fetch(r, c, name), c)
         /\ Graph!Fetch(r, c, name).pending # <<>>
<1> DEFINE a == Graph!RangeOf(c, name)
           p == r.pending
           q == IF Graph!Contains(p, a) THEN p ELSE Append(p, a)
           x == p # <<>> /\ (r.crossed \/ (Graph!Contains(p, a) /\ Graph!Last(p) # a))
<1>1. a \in Graph!Ranges /\ a = Graph!RangeOf(c, Graph!ProjectOf(a))
  BY RangeTyped
<1>2. p \in Seq(Graph!Ranges)
  BY DEF Requests
<1>3. Graph!Fetch(r, c, name) = [pending |-> q, asked |-> a, failed |-> FALSE, crossed |-> x]
  BY DEF Graph!Fetch
<1> HIDE DEF a, p
<1>4. q \in Seq(Graph!Ranges) /\ q # <<>>
  <2>1. Append(p, a) \in Seq(Graph!Ranges) /\ Append(p, a) # <<>>
    BY <1>1, <1>2, AppendProperties
  <2>2. Graph!Contains(p, a) => p # <<>>
    BY DEF Graph!Contains
  <2> QED BY <1>2, <2>1, <2>2
<1>5. Graph!IsInjective(q)
  <2>1. Graph!IsInjective(p)
    BY DEF p
  <2>2. CASE Graph!Contains(p, a)
    BY <2>1, <2>2
  <2>3. CASE ~ Graph!Contains(p, a)
    <3>1. \A i \in 1 .. Len(p) : p[i] # a
      BY <2>3 DEF Graph!Contains
    <3>2. Len(p) \in Nat /\ Len(q) = Len(p) + 1 /\ q[Len(p) + 1] = a
          /\ \A i \in 1 .. Len(p) : q[i] = p[i]
      BY <1>1, <1>2, <2>3, AppendProperties
    <3>3. DOMAIN p = 1 .. Len(p) /\ DOMAIN q = 1 .. Len(p) + 1
      BY <1>2, <1>4, <3>2
    <3> HIDE DEF q
    <3> SUFFICES ASSUME NEW i \in 1 .. Len(p) + 1, NEW j \in 1 .. Len(p) + 1, q[i] = q[j]
                 PROVE  i = j
      BY <3>3 DEF Graph!IsInjective
    <3>4. CASE i \in 1 .. Len(p) /\ j \in 1 .. Len(p)
      BY <2>1, <3>2, <3>3, <3>4 DEF Graph!IsInjective
    <3>5. CASE i = Len(p) + 1 \/ j = Len(p) + 1
      BY <3>1, <3>2, <3>5
    <3> QED BY <3>2, <3>4, <3>5
  <2> QED BY <2>2, <2>3
<1>6. ~ x => Graph!Last(q) = a
  <2>1. CASE Graph!Contains(p, a)
    <3>1. p # <<>>
      BY <2>1 DEF Graph!Contains
    <3> QED BY <2>1, <3>1
  <2>2. CASE ~ Graph!Contains(p, a)
    <3>1. Len(q) = Len(p) + 1 /\ q[Len(p) + 1] = a
      BY <1>1, <1>2, <2>2, AppendProperties
    <3> QED BY <3>1 DEF Graph!Last
  <2> QED BY <2>1, <2>2
<1>7. x \in BOOLEAN
  OBVIOUS
<1> HIDE DEF q, x
<1> QED BY <1>1, <1>3, <1>4, <1>5, <1>6, <1>7 DEF RequestFits, Requests

\* An answer takes one request away; if it is the first of several, the last
\* one stays.
LEMMA Answered ==
  ASSUME NEW r \in Requests, Graph!IsInjective(r.pending), NEW i \in DOMAIN r.pending,
         NEW w, w = Graph!Without(r, i)
  PROVE  /\ w \in Requests /\ Graph!IsInjective(w.pending)
         /\ w.asked = r.asked /\ w.failed = r.failed
         /\ ~ w.crossed => ~ r.crossed /\ i = 1
         /\ i = 1 /\ w.pending # <<>> => Graph!Last(w.pending) = Graph!Last(r.pending)
         /\ i = 1 /\ w.pending = <<>> => Graph!Last(r.pending) = r.pending[1]
<1> DEFINE p == r.pending
           q == Graph!RemoveAt(p, i)
           n == Len(p)
<1>1. p \in Seq(Graph!Ranges) /\ n \in Nat /\ i \in 1 .. n /\ DOMAIN p = 1 .. n
  BY DEF Requests
<1>2. w = [r EXCEPT !.pending = q, !.crossed = @ \/ i > 1]
  BY DEF Graph!Without
<1> HIDE DEF p, q, n
<1>3. /\ q \in Seq(Graph!Ranges) /\ Len(q) = n - 1
      /\ \A k \in 1 .. n - 1 : q[k] = IF k < i THEN p[k] ELSE p[k + 1]
  <2> DEFINE s == SubSeq(p, 1, i - 1)
             t == SubSeq(p, i + 1, n)
  <2>1. /\ s \in Seq(Graph!Ranges) /\ Len(s) = i - 1
        /\ \A k \in 1 .. i - 1 : s[k] = p[k]
    BY <1>1, SubSeqProperties
  <2>2. /\ t \in Seq(Graph!Ranges) /\ Len(t) = n - i
        /\ \A k \in 1 .. n - i : t[k] = p[i + k]
    <3>1. \A k \in i + 1 .. n : p[k] \in Graph!Ranges
      BY <1>1
    <3>2. /\ SubSeq(p, i + 1, n) \in Seq(Graph!Ranges)
          /\ Len(SubSeq(p, i + 1, n)) = IF i + 1 <= n THEN n - (i + 1) + 1 ELSE 0
      BY <1>1, <3>1, SubSeqProperties
    <3>3. \A k \in 1 .. n - i : t[k] = p[i + k]
      <4> SUFFICES ASSUME NEW k \in 1 .. n - i PROVE t[k] = p[i + k]
        OBVIOUS
      <4>1. t[k] = p[(i + 1) + k - 1]
        BY <1>1, <3>1, <3>2
      <4> QED BY <1>1, <4>1
    <3> QED BY <1>1, <3>2, <3>3
  <2>3. q = s \o t
    BY DEF q, Graph!RemoveAt, n
  <2> HIDE DEF s, t
  <2>4. /\ s \o t \in Seq(Graph!Ranges)
        /\ Len(s \o t) = Len(s) + Len(t)
        /\ \A k \in 1 .. Len(s) + Len(t) :
             (s \o t)[k] = IF k <= Len(s) THEN s[k] ELSE t[k - Len(s)]
    BY <2>1, <2>2, ConcatProperties
  <2>5. ASSUME NEW k \in 1 .. n - 1
        PROVE  q[k] = IF k < i THEN p[k] ELSE p[k + 1]
    <3>1. q[k] = IF k <= i - 1 THEN s[k] ELSE t[k - (i - 1)]
      BY <1>1, <2>1, <2>2, <2>3, <2>4
    <3>2. CASE k < i
      BY <1>1, <2>1, <3>1, <3>2
    <3>3. CASE ~ (k < i)
      <4>1. k - (i - 1) \in 1 .. n - i /\ i + (k - (i - 1)) = k + 1 /\ ~ (k <= i - 1)
        BY <1>1, <3>3
      <4> QED BY <2>2, <3>1, <3>3, <4>1
    <3> QED BY <3>2, <3>3
  <2> QED BY <1>1, <2>1, <2>2, <2>3, <2>4, <2>5
<1>4. Graph!IsInjective(q)
  <2>1. DOMAIN q = 1 .. n - 1
    BY <1>3
  <2>2. ASSUME NEW j \in 1 .. n, NEW k \in 1 .. n, p[j] = p[k]
        PROVE  j = k
    BY <1>1, <2>2 DEF Graph!IsInjective, p
  <2> SUFFICES ASSUME NEW j \in 1 .. n - 1, NEW k \in 1 .. n - 1, q[j] = q[k]
               PROVE  j = k
    BY <2>1 DEF Graph!IsInjective
  <2>3. PICK j1 \in 1 .. n : j1 = (IF j < i THEN j ELSE j + 1) /\ q[j] = p[j1]
    BY <1>1, <1>3
  <2>4. PICK k1 \in 1 .. n : k1 = (IF k < i THEN k ELSE k + 1) /\ q[k] = p[k1]
    BY <1>1, <1>3
  <2>5. j1 = k1
    BY <2>2, <2>3, <2>4
  <2> QED BY ONLY <1>1, <2>3, <2>4, <2>5
<1>5. /\ w \in Requests /\ w.pending = q /\ w.asked = r.asked /\ w.failed = r.failed
      /\ w.crossed = (r.crossed \/ i > 1)
  BY <1>2, <1>3 DEF Requests
<1>6. ~ w.crossed => ~ r.crossed /\ i = 1
  <2>1. ~ w.crossed => ~ r.crossed /\ ~ (i > 1)
    BY ONLY <1>5
  <2> QED BY <1>1, <2>1
<1>7. i = 1 /\ q # <<>> => Graph!Last(q) = Graph!Last(p)
  <2> SUFFICES ASSUME i = 1, q # <<>> PROVE Graph!Last(q) = Graph!Last(p)
    OBVIOUS
  <2>1. n - 1 \in 1 .. n - 1
    BY <1>1, <1>3
  <2>2. q[n - 1] = p[n]
    BY <1>1, <1>3, <2>1
  <2> QED BY <1>3, <2>2 DEF Graph!Last, n
<1>8. i = 1 /\ q = <<>> => Graph!Last(p) = p[1]
  <2>1. q = <<>> => n = 1
    BY <1>1, <1>3
  <2> QED BY <2>1 DEF Graph!Last, n
<1> QED BY <1>4, <1>5, <1>6, <1>7, <1>8 DEF p

\* The dates are between the bounds, and what is asked for and what is shown
\* follow from the controls.
GraphInv ==
  /\ Graph!TypeOK
  /\ RequestFits(request, controls)
  /\ bounds # <<>> => {controls.from, controls.to} \subseteq bounds[1] .. bounds[2]
  /\ ~ request.crossed /\ ~ request.failed /\ request.pending = <<>>
       => data = request.asked

LEMMA GraphShows == GraphInv => Graph!ShowsRange
BY DEF GraphInv, RequestFits, Graph!ShowsRange

\* What a step has to show.
LEMMA GraphKept ==
  ASSUME (projectName \in ValidNames)', (boundsDue \in BOOLEAN)',
         (bounds \in Bounds \cup {<<>>})', (controls \in Controls)',
         RequestFits(request, controls)',
         (bounds # <<>> => {controls.from, controls.to} \subseteq bounds[1] .. bounds[2])',
         (~ request.crossed /\ ~ request.failed /\ request.pending = <<>>
            => data = request.asked)',
         (data \in Graph!Ranges \cup {<<>>})', (view \in {"none", "graph", "blank"})',
         (alive \in BOOLEAN)', (picks \in 0 .. MaxPicks)'
  PROVE  GraphInv'
<1>1. (/\ request.pending \in Seq(Graph!Ranges) /\ Graph!IsInjective(request.pending)
       /\ request.asked \in Graph!Ranges
       /\ {request.failed, request.crossed} \subseteq BOOLEAN)'
  BY DEF RequestFits, Requests
<1>2. Graph!TypeOK'
  BY <1>1 DEF Graph!TypeOK, Controls
<1> QED BY <1>2 DEF GraphInv

LEMMA GraphInit == Graph!Init => GraphInv
<1> SUFFICES ASSUME Graph!Init PROVE GraphInv
  OBVIOUS
<1>1. /\ bounds = <<>> /\ data = <<>> /\ view = "none" /\ alive = TRUE /\ picks = 0
      /\ boundsDue = TRUE /\ projectName \in ValidNames
      /\ controls = [from |-> Now - DayHours, fromTime |-> 0, to |-> Now,
                     toTime |-> Graph!Hour(Now), group |-> "hour"]
  BY SetsAssumption DEF Graph!Init
<1>2. controls \in Controls
  <2>1. DayHours \in Nat \ {0} /\ Now \in Nat /\ DayHours <= Now
    BY DatesAssumption
  <2>2. Now - DayHours \in Graph!Dates /\ Now \in Graph!Dates /\ 0 \in Graph!Hours
    BY <2>1 DEF Graph!Dates, Graph!Hours
  <2>3. Graph!Hour(Now) \in Graph!Hours
    BY <2>2, Clock
  <2> QED BY <1>1, <2>2, <2>3 DEF Controls
<1>3. PICK a \in Graph!Ranges : /\ a = Graph!RangeOf(controls, projectName)
                               /\ Graph!ProjectOf(a) = projectName
  BY <1>1, <1>2, RangeTyped
<1>4. /\ request = [pending |-> <<a>>, asked |-> a, failed |-> FALSE, crossed |-> FALSE]
      /\ <<a>> \in Seq(Graph!Ranges) /\ Graph!IsInjective(<<a>>) /\ Graph!Last(<<a>>) = a
      /\ <<a>> # <<>>
  BY <1>3 DEF Graph!Init, Graph!IsInjective, Graph!Last
<1>5. request \in Requests /\ request.pending = <<a>> /\ request.asked = a
  BY <1>4 DEF Requests
<1>6. RequestFits(request, controls)
  BY <1>3, <1>4, <1>5 DEF RequestFits
<1>7. picks \in 0 .. MaxPicks
  BY <1>1, Limits
<1>8. Graph!TypeOK
  BY <1>1, <1>2, <1>4, <1>5, <1>7 DEF Graph!TypeOK, Controls
<1> QED BY <1>1, <1>4, <1>6, <1>8 DEF GraphInv

\* A rendering with other controls.
LEMMA GraphRendered ==
  ASSUME GraphInv, NEW c \in Controls, Graph!Render(c),
         UNCHANGED <<projectName, bounds, boundsDue, data, view>>,
         alive' \in BOOLEAN, picks' \in 0 .. MaxPicks
  PROVE  GraphInv'
<1>1. /\ bounds \in Bounds \cup {<<>>} /\ request \in Requests
      /\ projectName \in ValidNames /\ boundsDue \in BOOLEAN
      /\ Graph!IsInjective(request.pending)
      /\ data \in Graph!Ranges \cup {<<>>} /\ view \in {"none", "graph", "blank"}
  BY DEF GraphInv, RequestFits, Graph!TypeOK
<1>2. PICK new \in Controls :
        /\ new = Graph!Clamp(bounds, c)
        /\ bounds # <<>> => {new.from, new.to} \subseteq bounds[1] .. bounds[2]
  BY <1>1, Clamped
<1>3. PICK r : r = Graph!Fetch(request, c, projectName)
  OBVIOUS
<1>4. RequestFits(r, c) /\ r.pending # <<>>
  BY <1>1, <1>3, Fetched
<1>5. r \in Requests /\ Graph!IsInjective(r.pending)
  BY <1>4 DEF RequestFits
<1>6. controls' = new /\ request' = IF new = c THEN r ELSE Graph!Fetch(r, new, projectName)
  BY <1>2, <1>3 DEF Graph!Render
<1>7. /\ RequestFits(Graph!Fetch(r, new, projectName), new)
      /\ Graph!Fetch(r, new, projectName).pending # <<>>
  BY <1>1, <1>5, Fetched
<1>8. RequestFits(request', controls') /\ request'.pending # <<>>
  BY <1>4, <1>6, <1>7
<1>9. RequestFits(request, controls)'
  BY <1>8 DEF RequestFits
<1>10. /\ (projectName \in ValidNames)' /\ (boundsDue \in BOOLEAN)'
       /\ (bounds \in Bounds \cup {<<>>})' /\ (controls \in Controls)'
       /\ (bounds # <<>> => {controls.from, controls.to} \subseteq bounds[1] .. bounds[2])'
       /\ (~ request.crossed /\ ~ request.failed /\ request.pending = <<>>
             => data = request.asked)'
       /\ (data \in Graph!Ranges \cup {<<>>})' /\ (view \in {"none", "graph", "blank"})'
       /\ (alive \in BOOLEAN)' /\ (picks \in 0 .. MaxPicks)'
  BY <1>1, <1>2, <1>6, <1>8 DEF Controls
<1> QED BY <1>9, <1>10, GraphKept

LEMMA GraphStep ==
  GraphInv /\ (Graph!Next \/ UNCHANGED <<at, graphVars>>) => GraphInv'
<1> SUFFICES ASSUME GraphInv, Graph!Next \/ UNCHANGED <<at, graphVars>> PROVE GraphInv'
  OBVIOUS
<1>t. /\ projectName \in ValidNames /\ boundsDue \in BOOLEAN
      /\ bounds \in Bounds \cup {<<>>} /\ controls \in Controls
      /\ data \in Graph!Ranges \cup {<<>>} /\ view \in {"none", "graph", "blank"}
      /\ alive \in BOOLEAN /\ picks \in 0 .. MaxPicks
  BY DEF GraphInv, Graph!TypeOK, Controls
<1>r. /\ request \in Requests /\ Graph!IsInjective(request.pending)
      /\ request.asked = Graph!RangeOf(controls, Graph!ProjectOf(request.asked))
      /\ ~ request.crossed /\ request.pending # <<>>
           => Graph!Last(request.pending) = request.asked
      /\ ~ request.crossed /\ ~ request.failed /\ request.pending = <<>>
           => data = request.asked
  BY DEF GraphInv, RequestFits
<1>b. bounds # <<>> => {controls.from, controls.to} \subseteq bounds[1] .. bounds[2]
  BY DEF GraphInv
<1>c. /\ controls.from \in Graph!Dates /\ controls.to \in Graph!Dates
      /\ controls.fromTime \in Graph!Hours /\ controls.toTime \in Graph!Hours
      /\ controls.group \in {"hour", "day"}
  BY <1>t DEF Controls
<1>p. Graph!Pick => picks' \in 0 .. MaxPicks
  <2> SUFFICES ASSUME Graph!Pick PROVE picks' \in 0 .. MaxPicks
    OBVIOUS
  <2>1. picks < MaxPicks /\ picks' = picks + 1 /\ MaxPicks \in Nat /\ picks \in 0 .. MaxPicks
    BY <1>t, Limits DEF Graph!Pick
  <2> QED BY ONLY <2>1
<1>1. CASE Graph!BoundsKnown
  <2>1. /\ bounds' \in Bounds \cup {<<>>, bounds} /\ boundsDue' = FALSE
        /\ controls' = Graph!Clamp(bounds', controls)
        /\ request' = IF controls' = controls THEN request
                      ELSE Graph!Fetch(request, controls', projectName)
        /\ UNCHANGED <<projectName, data, view, alive, picks>>
    BY <1>1 DEF Graph!BoundsKnown
  <2>2. PICK b \in Bounds \cup {<<>>} : b = bounds'
    BY <1>t, <2>1
  <2>3. /\ controls' \in Controls
        /\ b # <<>> => {controls'.from, controls'.to} \subseteq b[1] .. b[2]
    BY <1>t, <2>1, <2>2, Clamped
  <2>4. PICK c \in Controls : c = controls'
    BY <2>3
  <2>5. RequestFits(request, controls)
    BY DEF GraphInv
  <2>6. /\ RequestFits(Graph!Fetch(request, c, projectName), c)
        /\ Graph!Fetch(request, c, projectName).pending # <<>>
    BY <1>t, <1>r, Fetched
  <2>7. /\ RequestFits(request', c)
        /\ ~ request'.crossed /\ ~ request'.failed /\ request'.pending = <<>>
             => data = request'.asked
    <3>1. CASE c = controls
      <4>1. request' = request
        BY <2>1, <2>4, <3>1
      <4> QED BY <1>r, <2>5, <3>1, <4>1
    <3>2. CASE c # controls
      <4>1. request' = Graph!Fetch(request, c, projectName)
        BY <2>1, <2>4, <3>2
      <4> QED BY <2>6, <4>1
    <3> QED BY <3>1, <3>2
  <2>8. RequestFits(request, controls)'
    BY <2>4, <2>7 DEF RequestFits
  <2>9. /\ (projectName \in ValidNames)' /\ (boundsDue \in BOOLEAN)'
        /\ (bounds \in Bounds \cup {<<>>})' /\ (controls \in Controls)'
        /\ (bounds # <<>> => {controls.from, controls.to} \subseteq bounds[1] .. bounds[2])'
        /\ (~ request.crossed /\ ~ request.failed /\ request.pending = <<>>
              => data = request.asked)'
        /\ (data \in Graph!Ranges \cup {<<>>})' /\ (view \in {"none", "graph", "blank"})'
        /\ (alive \in BOOLEAN)' /\ (picks \in 0 .. MaxPicks)'
    BY <1>t, <2>1, <2>2, <2>3, <2>7 DEF Controls
  <2> QED BY <2>8, <2>9, GraphKept
<1>2. CASE Graph!handleFromDateChange
  <2>1. PICK d \in Graph!Dates :
          Graph!Render([controls EXCEPT
             !.from = d,
             !.fromTime = IF @ \in Graph!AvailableHours(d) \/ Graph!AvailableHours(d) = {}
                          THEN @ ELSE Graph!First(Graph!AvailableHours(d))])
    BY <1>2 DEF Graph!handleFromDateChange
  <2>2. PICK h : h = IF controls.fromTime \in Graph!AvailableHours(d)
                          \/ Graph!AvailableHours(d) = {}
                     THEN controls.fromTime ELSE Graph!First(Graph!AvailableHours(d))
    OBVIOUS
  <2>3. h \in Graph!Hours
    BY <1>t, <1>c, <2>2, HoursOffered
  <2>4. Graph!Render([controls EXCEPT !.from = d, !.fromTime = h])
    BY <2>1, <2>2
  <2>5. [controls EXCEPT !.from = d, !.fromTime = h] \in Controls
    BY <1>t, <2>3 DEF Controls
  <2>6. Graph!Pick /\ UNCHANGED <<projectName, bounds, boundsDue, data, view, alive>>
    BY <1>2 DEF Graph!handleFromDateChange
  <2> QED BY <1>t, <1>p, <2>4, <2>5, <2>6, GraphRendered
<1>3. CASE Graph!handleToDateChange
  <2>1. PICK d \in Graph!Dates :
          Graph!Render([controls EXCEPT
             !.to = d,
             !.toTime = IF @ \in Graph!AvailableHours(d) \/ Graph!AvailableHours(d) = {}
                        THEN @ ELSE Graph!Final(Graph!AvailableHours(d))])
    BY <1>3 DEF Graph!handleToDateChange
  <2>2. PICK h : h = IF controls.toTime \in Graph!AvailableHours(d)
                          \/ Graph!AvailableHours(d) = {}
                     THEN controls.toTime ELSE Graph!Final(Graph!AvailableHours(d))
    OBVIOUS
  <2>3. h \in Graph!Hours
    BY <1>t, <1>c, <2>2, HoursOffered
  <2>4. Graph!Render([controls EXCEPT !.to = d, !.toTime = h])
    BY <2>1, <2>2
  <2>5. [controls EXCEPT !.to = d, !.toTime = h] \in Controls
    BY <1>t, <2>3 DEF Controls
  <2>6. Graph!Pick /\ UNCHANGED <<projectName, bounds, boundsDue, data, view, alive>>
    BY <1>3 DEF Graph!handleToDateChange
  <2> QED BY <1>t, <1>p, <2>4, <2>5, <2>6, GraphRendered
<1>4. CASE Graph!DeselectDate
  <2>1. Graph!Pick /\ alive' = FALSE
        /\ UNCHANGED <<projectName, bounds, boundsDue, controls, request, data, view>>
    BY <1>4 DEF Graph!DeselectDate
  <2> QED BY <1>p, <2>1 DEF GraphInv, RequestFits, Requests, Graph!TypeOK
<1>5. CASE Graph!SelectTime
  <2>1. Graph!Pick /\ UNCHANGED <<projectName, bounds, boundsDue, data, view, alive>>
    BY <1>5 DEF Graph!SelectTime
  <2>2. CASE \E h \in Graph!AvailableHours(controls.from) \ {controls.fromTime} :
               Graph!Render([controls EXCEPT !.fromTime = h])
    <3>1. PICK h \in Graph!AvailableHours(controls.from) :
                 Graph!Render([controls EXCEPT !.fromTime = h])
      BY <2>2
    <3>2. h \in Graph!Hours
      BY <1>t, <1>c, HoursOffered
    <3>3. [controls EXCEPT !.fromTime = h] \in Controls
      BY <1>t, <3>2 DEF Controls
    <3> QED BY <1>t, <1>p, <2>1, <3>1, <3>3, GraphRendered
  <2>3. CASE \E h \in Graph!AvailableHours(controls.to) \ {controls.toTime} :
               Graph!Render([controls EXCEPT !.toTime = h])
    <3>1. PICK h \in Graph!AvailableHours(controls.to) :
                 Graph!Render([controls EXCEPT !.toTime = h])
      BY <2>3
    <3>2. h \in Graph!Hours
      BY <1>t, <1>c, HoursOffered
    <3>3. [controls EXCEPT !.toTime = h] \in Controls
      BY <1>t, <3>2 DEF Controls
    <3> QED BY <1>t, <1>p, <2>1, <3>1, <3>3, GraphRendered
  <2> QED BY <1>5, <2>2, <2>3 DEF Graph!SelectTime
<1>6. CASE Graph!SelectInterval
  <2>1. PICK g \in {"hour", "day"} : Graph!Render([controls EXCEPT !.group = g])
    BY <1>6 DEF Graph!SelectInterval
  <2>2. [controls EXCEPT !.group = g] \in Controls
    BY <1>t DEF Controls
  <2>3. Graph!Pick /\ UNCHANGED <<projectName, bounds, boundsDue, data, view, alive>>
    BY <1>6 DEF Graph!SelectInterval
  <2> QED BY <1>t, <1>p, <2>1, <2>2, <2>3, GraphRendered
<1>7. CASE Graph!handleRefresh
  <2>1. Graph!Pick /\ Graph!Render([controls EXCEPT !.to = Now, !.toTime = Graph!Hour(Now)])
        /\ UNCHANGED <<projectName, bounds, boundsDue, data, view, alive>>
    BY <1>7 DEF Graph!handleRefresh
  <2>2. Now \in Graph!Dates
    BY DatesAssumption DEF Graph!Dates
  <2>3. Graph!Hour(Now) \in Graph!Hours
    BY <2>2, Clock
  <2>4. [controls EXCEPT !.to = Now, !.toTime = Graph!Hour(Now)] \in Controls
    BY <1>t, <2>2, <2>3 DEF Controls
  <2> QED BY <1>t, <1>p, <2>1, <2>4, GraphRendered
<1>8. ASSUME NEW i \in DOMAIN request.pending, Graph!UsageAnswered(i)
      PROVE  GraphInv'
  <2>1. /\ data' = request.pending[i] /\ request' = Graph!Without(request, i)
        /\ view' \in IF data' = request.asked THEN {"graph", "blank"} ELSE {view}
        /\ UNCHANGED <<projectName, bounds, boundsDue, controls, alive, picks>>
    BY <1>8 DEF Graph!UsageAnswered
  <2>2. PICK w : w = Graph!Without(request, i)
    OBVIOUS
  <2>3. /\ w \in Requests /\ Graph!IsInjective(w.pending) /\ w.asked = request.asked
        /\ ~ w.crossed => ~ request.crossed /\ i = 1
        /\ i = 1 /\ w.pending # <<>> => Graph!Last(w.pending) = Graph!Last(request.pending)
        /\ i = 1 /\ w.pending = <<>> => Graph!Last(request.pending) = request.pending[1]
    BY <1>r, <2>2, Answered
  <2>4. request' = w /\ request.pending # <<>> /\ data' \in Graph!Ranges
        /\ view' \in {"none", "graph", "blank"}
    <3>1. request.pending \in Seq(Graph!Ranges)
      BY <1>r DEF Requests
    <3> QED BY <1>t, <2>1, <2>2, <3>1
  <2>5. ~ w.crossed /\ w.pending # <<>> => Graph!Last(w.pending) = w.asked
    BY <1>r, <2>3, <2>4
  <2>6. ~ w.crossed /\ ~ w.failed /\ w.pending = <<>> => data' = w.asked
    BY <1>r, <2>1, <2>3, <2>4
  <2>7. RequestFits(request, controls)'
    BY <1>r, <2>1, <2>3, <2>4, <2>5 DEF RequestFits
  <2>8. /\ (projectName \in ValidNames)' /\ (boundsDue \in BOOLEAN)'
        /\ (bounds \in Bounds \cup {<<>>})' /\ (controls \in Controls)'
        /\ (bounds # <<>> => {controls.from, controls.to} \subseteq bounds[1] .. bounds[2])'
        /\ (~ request.crossed /\ ~ request.failed /\ request.pending = <<>>
              => data = request.asked)'
        /\ (data \in Graph!Ranges \cup {<<>>})' /\ (view \in {"none", "graph", "blank"})'
        /\ (alive \in BOOLEAN)' /\ (picks \in 0 .. MaxPicks)'
    BY <1>t, <1>b, <2>1, <2>4, <2>6 DEF Controls
  <2> QED BY <2>7, <2>8, GraphKept
<1>9. ASSUME NEW i \in DOMAIN request.pending, Graph!UsageFails(i)
      PROVE  GraphInv'
  <2>1. PICK last \in {request.pending[i] = request.asked} :
          /\ request' = [Graph!Without(request, i) EXCEPT !.failed = @ \/ last]
          /\ alive' = ~ (last /\ at = "memory")
    BY <1>9 DEF Graph!UsageFails
  <2>2. UNCHANGED <<projectName, bounds, boundsDue, controls, data, view, picks>>
    BY <1>9 DEF Graph!UsageFails
  <2>3. PICK w : w = Graph!Without(request, i)
    OBVIOUS
  <2>4. /\ w \in Requests /\ Graph!IsInjective(w.pending) /\ w.asked = request.asked
        /\ ~ w.crossed => ~ request.crossed /\ i = 1
        /\ i = 1 /\ w.pending # <<>> => Graph!Last(w.pending) = Graph!Last(request.pending)
        /\ i = 1 /\ w.pending = <<>> => Graph!Last(request.pending) = request.pending[1]
    BY <1>r, <2>3, Answered
  <2>5. request.pending # <<>>
    OBVIOUS
  <2>6. PICK v \in Requests :
          /\ v = request' /\ v.pending = w.pending /\ v.asked = w.asked
          /\ v.crossed = w.crossed /\ v.failed = (w.failed \/ last)
    <3>1. PICK f \in BOOLEAN : f = (w.failed \/ last)
      OBVIOUS
    <3>2. request' = [w EXCEPT !.failed = f]
      BY <2>1, <2>3, <3>1
    <3>3. [w EXCEPT !.failed = f] \in Requests
      BY <2>4, <3>1 DEF Requests
    <3>4. w = [pending |-> w.pending, asked |-> w.asked, failed |-> w.failed,
               crossed |-> w.crossed]
      BY <2>4 DEF Requests
    <3> QED BY <3>1, <3>2, <3>3, <3>4
  <2>7. ~ v.crossed /\ v.pending # <<>> => Graph!Last(v.pending) = v.asked
    BY <1>r, <2>4, <2>5, <2>6
  <2>8. ~ v.crossed /\ ~ v.failed => v.pending # <<>>
    <3> SUFFICES ASSUME ~ v.crossed, ~ v.failed, v.pending = <<>> PROVE FALSE
      OBVIOUS
    <3>1. request.pending[1] = request.asked /\ i = 1
      BY <1>r, <2>4, <2>5, <2>6
    <3>2. last
      BY <2>1, <3>1
    <3> QED BY <2>6, <3>2
  <2>9. RequestFits(request, controls)'
    BY <1>r, <2>2, <2>4, <2>6, <2>7 DEF RequestFits
  <2>10. alive' \in BOOLEAN
    BY <2>1
  <2>11. /\ (projectName \in ValidNames)' /\ (boundsDue \in BOOLEAN)'
         /\ (bounds \in Bounds \cup {<<>>})' /\ (controls \in Controls)'
         /\ (bounds # <<>> => {controls.from, controls.to} \subseteq bounds[1] .. bounds[2])'
         /\ (~ request.crossed /\ ~ request.failed /\ request.pending = <<>>
               => data = request.asked)'
         /\ (data \in Graph!Ranges \cup {<<>>})' /\ (view \in {"none", "graph", "blank"})'
         /\ (alive \in BOOLEAN)' /\ (picks \in 0 .. MaxPicks)'
    BY <1>t, <1>b, <2>2, <2>6, <2>8, <2>10 DEF Controls
  <2> QED BY <2>9, <2>11, GraphKept
<1>10. CASE UNCHANGED <<at, graphVars>>
  <2>1. UNCHANGED <<projectName, bounds, boundsDue, controls, request, data, view, alive,
                    picks>>
    BY <1>10 DEF graphVars
  <2> QED BY <2>1 DEF GraphInv, RequestFits, Requests, Graph!TypeOK
<1>11. CASE Graph!ChangeProject
  <2>1. /\ Graph!Pick /\ projectName' \in ValidNames /\ boundsDue' = TRUE
        /\ UNCHANGED <<bounds, controls, request, data, view, alive>>
    BY <1>11 DEF Graph!ChangeProject
  <2> QED BY <1>p, <2>1 DEF GraphInv, RequestFits, Requests, Graph!TypeOK
<1> QED BY <1>1, <1>2, <1>3, <1>4, <1>5, <1>6, <1>7, <1>8, <1>9, <1>10, <1>11 DEF Graph!Next

-----------------------------------------------------------------------------
(* The charts of live metrics (LiveMetricsPanel)                           *)

\* The positions that come at or before position i once s is sorted.
Below(s, i) == {j \in DOMAIN s : s[j] < s[i] \/ (s[j] = s[i] /\ j <= i)}

LEMMA PlaceIsBelow ==
  ASSUME NEW s, NEW i
  PROVE  Live!Place(s, i) = Cardinality(Below(s, i))
BY DEF Live!Place, Below, Live!Cardinality, Cardinality, Live!IsFiniteSet, IsFiniteSet

\* Two positions have different places, the greater sample the later one.
LEMMA Places ==
  ASSUME NEW s \in Seq(Nat), NEW i \in 1 .. Len(s), NEW j \in 1 .. Len(s), i # j,
         s[i] < s[j] \/ (s[i] = s[j] /\ i < j)
  PROVE  /\ Live!Place(s, i) \in 1 .. Len(s) /\ Live!Place(s, j) \in 1 .. Len(s)
         /\ Live!Place(s, i) < Live!Place(s, j)
<1>1. /\ Len(s) \in Nat /\ DOMAIN s = 1 .. Len(s)
      /\ \A k \in 1 .. Len(s) : s[k] \in Nat /\ k \in Nat
  OBVIOUS
<1>2. IsFiniteSet(1 .. Len(s)) /\ Cardinality(1 .. Len(s)) = Len(s)
  <2>1. /\ IsFiniteSet(1 .. Len(s))
        /\ Cardinality(1 .. Len(s)) = IF 1 > Len(s) THEN 0 ELSE Len(s) - 1 + 1
    BY <1>1, FS_Interval
  <2> QED BY ONLY <1>1, <2>1
<1>3. ASSUME NEW k \in 1 .. Len(s)
      PROVE  /\ Below(s, k) \in SUBSET (1 .. Len(s)) /\ IsFiniteSet(Below(s, k))
             /\ Cardinality(Below(s, k)) \in 1 .. Len(s)
  <2>1. Below(s, k) \in SUBSET (1 .. Len(s))
    BY <1>1 DEF Below
  <2>2. IsFiniteSet(Below(s, k)) /\ Cardinality(Below(s, k)) <= Len(s)
    BY <1>2, <2>1, FS_Subset
  <2>3. Cardinality(Below(s, k)) \in Nat
    BY <2>2, FS_CardinalityType
  <2>4. k \in Below(s, k)
    BY <1>1 DEF Below
  <2>5. Cardinality(Below(s, k)) # 0
    BY <2>2, <2>4, FS_EmptySet
  <2> QED BY <1>1, <2>1, <2>2, <2>3, <2>5
<1>4. Below(s, i) \in SUBSET Below(s, j) /\ j \in Below(s, j) /\ j \notin Below(s, i)
  BY <1>1 DEF Below
<1>5. /\ Cardinality(Below(s, i)) <= Cardinality(Below(s, j))
      /\ Cardinality(Below(s, i)) # Cardinality(Below(s, j))
  BY <1>3, <1>4, FS_Subset
<1>6. Cardinality(Below(s, i)) < Cardinality(Below(s, j))
  BY <1>1, <1>3, <1>5
<1> QED BY <1>3, <1>6, PlaceIsBelow

\* Each place is the place of one position.
LEMMA PlaceOf ==
  ASSUME NEW s \in Seq(Nat)
  PROVE  /\ \A i \in 1 .. Len(s) : Live!Place(s, i) \in 1 .. Len(s)
         /\ \A k \in 1 .. Len(s) : \E i \in 1 .. Len(s) : Live!Place(s, i) = k
<1> DEFINE n == Len(s)
           f == [i \in 1 .. n |-> Live!Place(s, i)]
<1>1. n \in Nat /\ \A k \in 1 .. n : s[k] \in Nat
  OBVIOUS
<1>2. IsFiniteSet(1 .. n) /\ Cardinality(1 .. n) = n
  BY <1>1, FS_Interval
<1> HIDE DEF n
<1>3. ASSUME NEW i \in 1 .. n
      PROVE  Live!Place(s, i) \in 1 .. n
  <2>1. i \in Below(s, i) /\ Below(s, i) \in SUBSET (1 .. n)
    BY <1>1 DEF Below, n
  <2>2. IsFiniteSet(Below(s, i)) /\ Cardinality(Below(s, i)) <= n
    BY <1>2, <2>1, FS_Subset
  <2>3. Cardinality(Below(s, i)) \in Nat /\ Cardinality(Below(s, i)) # 0
    BY <2>1, <2>2, FS_CardinalityType, FS_EmptySet
  <2>4. Cardinality(Below(s, i)) \in 1 .. n
    BY <1>1, <2>2, <2>3
  <2> QED BY <2>4, PlaceIsBelow
<1>4. ASSUME NEW i \in 1 .. n, NEW j \in 1 .. n, i # j
      PROVE  Live!Place(s, i) # Live!Place(s, j)
  <2>1. i \in Int /\ j \in Int /\ s[i] \in Nat /\ s[j] \in Nat
    BY <1>1
  <2>2. Live!Place(s, i) \in Int /\ Live!Place(s, j) \in Int
    BY <1>1, <1>3
  <2>3. CASE s[i] < s[j] \/ (s[i] = s[j] /\ i < j)
    <3>1. Live!Place(s, i) < Live!Place(s, j)
      BY <1>4, <2>3, Places DEF n
    <3> QED BY <2>2, <3>1
  <2>4. CASE s[j] < s[i] \/ (s[j] = s[i] /\ j < i)
    <3>1. Live!Place(s, j) < Live!Place(s, i)
      BY <1>4, <2>4, Places DEF n
    <3> QED BY <2>2, <3>1
  <2> QED BY <1>4, <2>1, <2>3, <2>4
<1>5. f \in Injection(1 .. n, 1 .. n)
  BY <1>3, <1>4 DEF Injection, IsInjective
<1>6. f \in Surjection(1 .. n, 1 .. n)
  BY <1>2, <1>5, FS_Injection
<1>7. \A k \in 1 .. n : \E i \in 1 .. n : f[i] = k
  BY <1>6 DEF Surjection
<1> QED BY <1>3, <1>7 DEF n

\* Sorted, a list has the same elements, in order.
LEMMA SortedFacts ==
  ASSUME NEW s \in Seq(Samples), NEW t, t = Live!Sorted(s)
  PROVE  /\ t \in Seq(Samples) /\ Len(t) = Len(s)
         /\ \A i \in 1 .. Len(s) : \E k \in 1 .. Len(s) : t[k] = s[i]
         /\ \A k, l \in 1 .. Len(s) : k < l => t[k] <= t[l]
<1> DEFINE n == Len(s)
           at_(k) == CHOOSE i \in 1 .. n : Live!Place(s, i) = k
<1>1. s \in Seq(Nat) /\ n \in Nat /\ DOMAIN s = 1 .. n
      /\ \A i \in 1 .. n : s[i] \in Samples /\ s[i] \in Nat /\ i \in Nat
  <2>1. Samples \subseteq Nat
    BY SetsAssumption
  <2>2. s \in Seq(Nat)
    BY <2>1, SeqMonotonic
  <2>3. n \in Nat /\ DOMAIN s = 1 .. n /\ \A i \in 1 .. n : s[i] \in Samples /\ i \in Nat
    OBVIOUS
  <2> QED BY <2>1, <2>2, <2>3
<1>2. t = [k \in 1 .. n |-> s[at_(k)]]
  BY <1>1 DEF Live!Sorted
<1>3. ASSUME NEW k \in 1 .. n
      PROVE  at_(k) \in 1 .. n /\ Live!Place(s, at_(k)) = k
  BY <1>1, PlaceOf
<1> HIDE DEF at_, n
<1>4. t \in [1 .. n -> Samples]
  BY <1>1, <1>2, <1>3
<1>5. t \in Seq(Samples) /\ Len(t) = n
  BY <1>1, <1>4
<1>6. ASSUME NEW i \in 1 .. n
      PROVE  \E k \in 1 .. n : t[k] = s[i]
  <2>1. PICK k \in 1 .. n : k = Live!Place(s, i)
    BY <1>1, PlaceOf DEF n
  <2>2. at_(k) \in 1 .. n /\ Live!Place(s, at_(k)) = Live!Place(s, i)
    BY <1>3, <2>1
  <2>3. at_(k) = i
    <3> SUFFICES ASSUME at_(k) # i PROVE FALSE
      OBVIOUS
    <3>1. PICK j \in 1 .. n : j = at_(k)
      BY <2>2
    <3>2. j # i /\ Live!Place(s, j) = Live!Place(s, i) /\ Live!Place(s, j) \in Int
      BY <1>1, <2>1, <2>2, <3>1
    <3>3. CASE s[i] < s[j] \/ (s[i] = s[j] /\ i < j)
      <4>1. Live!Place(s, i) < Live!Place(s, j)
        BY <1>1, <3>2, <3>3, Places DEF n
      <4> QED BY ONLY <3>2, <4>1
    <3>4. CASE s[j] < s[i] \/ (s[j] = s[i] /\ j < i)
      <4>1. Live!Place(s, j) < Live!Place(s, i)
        BY <1>1, <3>2, <3>4, Places DEF n
      <4> QED BY ONLY <3>2, <4>1
    <3>5. s[i] \in Nat /\ s[j] \in Nat /\ i \in Nat /\ j \in Nat
      BY <1>1
    <3> QED BY ONLY <3>2, <3>3, <3>4, <3>5
  <2> QED BY <1>2, <2>3
<1>7. ASSUME NEW k \in 1 .. n, NEW l \in 1 .. n, k < l
      PROVE  t[k] <= t[l]
  <2>1. PICK i \in 1 .. n : i = at_(k)
    BY <1>3
  <2>2. PICK j \in 1 .. n : j = at_(l)
    BY <1>3
  <2>3. Live!Place(s, i) = k /\ Live!Place(s, j) = l /\ t[k] = s[i] /\ t[l] = s[j]
    BY <1>2, <1>3, <2>1, <2>2
  <2>4. s[i] \in Nat /\ s[j] \in Nat
    BY <1>1
  <2> SUFFICES ASSUME s[j] < s[i] PROVE FALSE
    BY <2>3, <2>4
  <2>5. j # i
    BY <2>4
  <2>6. Live!Place(s, j) < Live!Place(s, i)
    BY <1>1, <2>5, Places DEF n
  <2> QED BY <1>1, <1>7, <2>3, <2>6
<1> QED BY <1>5, <1>6, <1>7 DEF n

\* The newest samples of a list that is sorted: those that are cut off are not
\* newer.
LEMMA NewestFacts ==
  ASSUME NEW t \in Seq(Samples), NEW m \in Nat \ {0}, t # <<>>, NEW h, h = Live!Newest(t, m),
         \A k, l \in 1 .. Len(t) : k < l => t[k] <= t[l]
  PROVE  /\ h \in Seq(Samples) /\ Len(h) \in 1 .. m
         /\ \A k \in 1 .. Len(t) : t[k] \in Live!Range(h) \/ \A x \in Live!Range(h) : x >= t[k]
<1> DEFINE n == Len(t)
<1>1. n \in Nat \ {0} /\ \A k \in 1 .. n : t[k] \in Samples /\ t[k] \in Nat
  <2>1. Samples \subseteq Nat
    BY SetsAssumption
  <2>2. n \in Nat \ {0}
    BY EmptySeq
  <2>3. \A k \in 1 .. n : t[k] \in Samples
    OBVIOUS
  <2> QED BY <2>1, <2>2, <2>3
<1>2. PICK lo \in 1 .. n : lo = IF n < m THEN 1 ELSE n - m + 1
  <2> HIDE DEF n
  <2>1. CASE n < m
    <3>1. 1 \in 1 .. n
      BY <1>1
    <3> QED BY <2>1, <3>1
  <2>2. CASE ~ (n < m)
    <3>1. n - m + 1 \in 1 .. n
      BY ONLY <1>1, <2>2, m \in Nat \ {0}
    <3> QED BY <2>2, <3>1
  <2> QED BY <2>1, <2>2
<1>3. h = SubSeq(t, lo, n)
  BY <1>2 DEF Live!Newest
<1>4. /\ h \in Seq(Samples) /\ Len(h) = n - lo + 1
      /\ \A k \in 1 .. n - lo + 1 : h[k] = t[lo + k - 1]
  <2>1. \A k \in lo .. n : t[k] \in Samples
    BY <1>1
  <2> HIDE DEF n
  <2>2. lo \in Int /\ n \in Int /\ lo <= n
    BY <1>1
  <2> QED BY <1>3, <2>1, <2>2, SubSeqProperties
<1>5. Len(h) \in 1 .. m
  BY <1>1, <1>2, <1>4
<1>6. ASSUME NEW k \in 1 .. n
      PROVE  t[k] \in Live!Range(h) \/ \A x \in Live!Range(h) : x >= t[k]
  <2>0. DOMAIN h = 1 .. n - lo + 1
    BY <1>4
  <2>1. CASE k >= lo
    <3>1. k - lo + 1 \in 1 .. n - lo + 1 /\ lo + (k - lo + 1) - 1 = k
      BY <1>1, <2>1
    <3>2. h[k - lo + 1] = t[k]
      BY <1>4, <3>1
    <3> QED BY <2>0, <3>1, <3>2 DEF Live!Range
  <2>2. CASE k < lo
    <3> SUFFICES ASSUME NEW d \in 1 .. n - lo + 1 PROVE h[d] >= t[k]
      BY <2>0 DEF Live!Range
    <3>1. PICK l \in 1 .. n : l = lo + d - 1
      BY <1>1
    <3>2. h[d] = t[l] /\ k < l
      BY <1>1, <1>4, <2>2, <3>1
    <3> QED BY <1>1, <3>2
  <2> QED BY <1>1, <2>1, <2>2
<1> QED BY <1>4, <1>5, <1>6

LiveInv == Live!TypeOK /\ Live!ShowsNewest

LEMMA LiveInit == Live!Init => LiveInv
<1> SUFFICES ASSUME Live!Init PROVE LiveInv
  OBVIOUS
<1>1. metrics = <<>> /\ historical = <<>> /\ effectDue = FALSE /\ arrivals = 0
      /\ maxDataPoints \in Sizes
  BY Limits DEF Live!Init
<1>2. maxDataPoints \in Nat /\ 0 <= maxDataPoints /\ 0 \in 0 .. MaxArrivals /\ 0 <= MaxKept
  <2>1. maxDataPoints \in Nat /\ MaxArrivals \in Nat /\ MaxKept \in Nat
    BY <1>1, Limits
  <2> QED BY ONLY <2>1
<1>3. <<>> \in Seq(Samples) /\ Len(<<>>) = 0
  OBVIOUS
<1> QED BY <1>1, <1>2, <1>3 DEF LiveInv, Live!TypeOK, Live!ShowsNewest

LEMMA LiveStep ==
  LiveInv /\ (Live!Next \/ UNCHANGED liveVars) => LiveInv'
<1> SUFFICES ASSUME LiveInv, Live!Next \/ UNCHANGED liveVars PROVE LiveInv'
  OBVIOUS
<1>t. /\ metrics \in Seq(Samples) /\ Len(metrics) <= MaxKept
      /\ historical \in Seq(Samples) /\ \E n \in Sizes : Len(historical) <= n
      /\ maxDataPoints \in Sizes /\ effectDue \in BOOLEAN /\ arrivals \in 0 .. MaxArrivals
  BY DEF LiveInv, Live!TypeOK
<1>1. ASSUME NEW a \in Samples, Live!MetricArrives(a)
      PROVE  LiveInv'
  <2>1. arrivals < MaxArrivals /\ arrivals' = arrivals + 1 /\ UNCHANGED <<historical, maxDataPoints>>
    BY <1>1 DEF Live!MetricArrives
  <2>2. arrivals' \in 0 .. MaxArrivals
    <3>1. arrivals \in 0 .. MaxArrivals /\ MaxArrivals \in Nat
      BY <1>t, Limits
    <3> QED BY ONLY <2>1, <3>1
  <2>3. CASE UNCHANGED <<metrics, effectDue>>
    BY <2>1, <2>2, <2>3 DEF LiveInv, Live!TypeOK, Live!ShowsNewest
  <2>4. CASE metrics' = Live!Kept(<<a>> \o metrics, MaxKept) /\ effectDue' = TRUE
    <3>1. PICK s \in Seq(Samples) : s = <<a>> \o metrics
      <4>1. <<a>> \in Seq(Samples)
        OBVIOUS
      <4> QED BY <1>t, <4>1, ConcatProperties
    <3>2. PICK n \in Nat : n = (IF Len(s) < MaxKept THEN Len(s) ELSE MaxKept)
      BY Limits
    <3>3. n <= MaxKept /\ n <= Len(s)
      <4>1. Len(s) \in Nat /\ MaxKept \in Nat
        BY Limits
      <4> QED BY ONLY <3>2, <4>1
    <3>4. metrics' = SubSeq(s, 1, n)
      BY <2>4, <3>1, <3>2 DEF Live!Kept
    <3>5. metrics' \in Seq(Samples) /\ Len(metrics') <= MaxKept
      <4>1. \A k \in 1 .. n : s[k] \in Samples
        BY <3>3
      <4>2. SubSeq(s, 1, n) \in Seq(Samples) /\ Len(SubSeq(s, 1, n)) = IF 1 <= n THEN n - 1 + 1 ELSE 0
        BY <4>1, SubSeqProperties
      <4>3. Len(SubSeq(s, 1, n)) = n
        BY ONLY <4>2, n \in Nat
      <4> QED BY <3>3, <3>4, <4>2, <4>3
    <3> QED BY <1>t, <2>1, <2>2, <2>4, <3>5 DEF LiveInv, Live!TypeOK, Live!ShowsNewest
  <2> QED BY <1>1, <2>3, <2>4 DEF Live!MetricArrives
<1>2. ASSUME NEW n \in Sizes, Live!SelectSize(n)
      PROVE  LiveInv'
  BY <1>2 DEF Live!SelectSize, LiveInv, Live!TypeOK, Live!ShowsNewest
<1>3. CASE Live!UpdateHistoricalData
  <2>1. /\ effectDue' = FALSE /\ UNCHANGED <<metrics, maxDataPoints, arrivals>>
        /\ historical' = IF metrics = <<>> THEN historical
                         ELSE Live!Newest(Live!Sorted(historical \o metrics), maxDataPoints)
    BY <1>3 DEF Live!UpdateHistoricalData
  <2>2. CASE metrics = <<>>
    BY <2>1, <2>2 DEF LiveInv, Live!TypeOK, Live!ShowsNewest
  <2>3. CASE metrics # <<>>
    <3>1. PICK s \in Seq(Samples) :
            /\ s = historical \o metrics /\ s # <<>>
            /\ \A x \in Live!Range(metrics) : \E i \in 1 .. Len(s) : s[i] = x
      <4>1. /\ historical \o metrics \in Seq(Samples)
            /\ Len(historical \o metrics) = Len(historical) + Len(metrics)
            /\ \A i \in 1 .. Len(historical) + Len(metrics) :
                 (historical \o metrics)[i] = IF i <= Len(historical) THEN historical[i]
                                              ELSE metrics[i - Len(historical)]
        BY <1>t, ConcatProperties
      <4>2. Len(historical) \in Nat /\ Len(metrics) \in Nat \ {0}
            /\ DOMAIN metrics = 1 .. Len(metrics)
        BY <1>t, <2>3
      <4>3. ASSUME NEW j \in 1 .. Len(metrics)
            PROVE  \E i \in 1 .. Len(historical \o metrics) :
                     (historical \o metrics)[i] = metrics[j]
        <5>1. /\ Len(historical) + j \in 1 .. Len(historical) + Len(metrics)
              /\ ~ (Len(historical) + j <= Len(historical))
              /\ Len(historical) + j - Len(historical) = j
          BY <4>2
        <5>2. (historical \o metrics)[Len(historical) + j] = metrics[j]
          BY <4>1, <5>1
        <5> QED BY <4>1, <5>1, <5>2
      <4>4. historical \o metrics # <<>>
        BY <4>1, <4>2
      <4>5. \A x \in Live!Range(metrics) : \E j \in 1 .. Len(metrics) : metrics[j] = x
        BY <4>2 DEF Live!Range
      <4>6. PICK s \in Seq(Samples) : s = historical \o metrics
        BY <4>1
      <4>7. s # <<>> /\ \A j \in 1 .. Len(metrics) : \E i \in 1 .. Len(s) : s[i] = metrics[j]
        BY <4>3, <4>4, <4>6
      <4>8. \A x \in Live!Range(metrics) : \E i \in 1 .. Len(s) : s[i] = x
        <5> SUFFICES ASSUME NEW x \in Live!Range(metrics)
                     PROVE  \E i \in 1 .. Len(s) : s[i] = x
          OBVIOUS
        <5>1. PICK j \in 1 .. Len(metrics) : metrics[j] = x
          BY <4>5
        <5> QED BY ONLY <4>7, <5>1
      <4> QED BY <4>6, <4>7, <4>8
    <3>2. PICK t : t = Live!Sorted(s)
      OBVIOUS
    <3>3. /\ t \in Seq(Samples) /\ Len(t) = Len(s)
          /\ \A i \in 1 .. Len(s) : \E k \in 1 .. Len(s) : t[k] = s[i]
          /\ \A k, l \in 1 .. Len(s) : k < l => t[k] <= t[l]
      BY <3>2, SortedFacts
    <3>4. t # <<>> /\ maxDataPoints \in Nat \ {0}
      BY <1>t, <3>1, <3>3, Limits
    <3>5. historical' = Live!Newest(t, maxDataPoints)
      BY <2>1, <2>3, <3>1, <3>2
    <3>6. PICK h : h = Live!Newest(t, maxDataPoints)
      OBVIOUS
    <3>7. /\ h \in Seq(Samples) /\ Len(h) \in 1 .. maxDataPoints
          /\ \A k \in 1 .. Len(t) : t[k] \in Live!Range(h) \/ \A x \in Live!Range(h) : x >= t[k]
      BY <3>3, <3>4, <3>6, NewestFacts
    <3>8. ASSUME NEW x \in Live!Range(metrics) \ Live!Range(h), NEW y \in Live!Range(h)
          PROVE  y > x
      <4>1. PICK k \in 1 .. Len(t) : t[k] = x
        <5>1. PICK i \in 1 .. Len(s) : s[i] = x
          BY <3>1, <3>8
        <5> QED BY <3>3, <5>1
      <4>2. y >= x /\ y # x
        BY <3>7, <3>8, <4>1
      <4>3. x \in Nat /\ y \in Nat
        <5>1. x \in Samples
          BY <3>3, <4>1
        <5>2. y \in Samples
          BY <3>7 DEF Live!Range
        <5> QED BY <5>1, <5>2, SetsAssumption
      <4> QED BY <4>2, <4>3
    <3>9. Len(h) <= maxDataPoints
      BY <3>4, <3>7
    <3> QED BY <1>t, <2>1, <3>5, <3>6, <3>7, <3>8, <3>9
            DEF LiveInv, Live!TypeOK, Live!ShowsNewest
  <2> QED BY <2>2, <2>3
<1>4. CASE UNCHANGED liveVars
  BY <1>4 DEF liveVars, LiveInv, Live!TypeOK, Live!ShowsNewest
<1> QED BY <1>1, <1>2, <1>3, <1>4 DEF Live!Next

-----------------------------------------------------------------------------
(* The web client                                                          *)

IInv ==
  /\ at \in Pages
  /\ ProjectInv /\ RuleInv /\ SettingInv /\ LogsInv /\ GraphInv /\ LiveInv

LEMMA InitIInv == Init => IInv
BY ProjectInit, RuleInit, SettingInit, LogsInit, GraphInit, LiveInit DEF Init, IInv

\* A step is one of each page, or leaves it as it is.
LEMMA OfPages ==
  [Next]_vars =>
    /\ at' = at
    /\ Project!Next \/ UNCHANGED projectVars
    /\ Rule!Next \/ UNCHANGED ruleVars
    /\ Setting!Next \/ UNCHANGED settingVars
    /\ Logs!Next \/ UNCHANGED logsVars
    /\ Graph!Next \/ UNCHANGED <<at, graphVars>>
    /\ Live!Next \/ UNCHANGED liveVars
<1> SUFFICES ASSUME [Next]_vars
             PROVE  /\ at' = at
                    /\ Project!Next \/ UNCHANGED projectVars
                    /\ Rule!Next \/ UNCHANGED ruleVars
                    /\ Setting!Next \/ UNCHANGED settingVars
                    /\ Logs!Next \/ UNCHANGED logsVars
                    /\ Graph!Next \/ UNCHANGED <<at, graphVars>>
                    /\ Live!Next \/ UNCHANGED liveVars
  OBVIOUS
<1>1. CASE OnCreatePage
  BY <1>1 DEF OnCreatePage
<1>2. CASE OnRulePage
  BY <1>2 DEF OnRulePage
<1>3. CASE OnSettingsPage
  BY <1>3 DEF OnSettingsPage
<1>4. CASE OnLogsPage
  <2>1. at' = at
    BY <1>4 DEF OnLogsPage, Logs!Next, Logs!PickDate, Logs!toggleDateSort, Logs!SelectLogType,
             Logs!Refresh, Logs!clearFilters, Logs!GoToPage, Logs!Navigate, Logs!ProjectAnswered,
             Logs!LogsAnswered, Logs!Change
  <2> QED BY <1>4, <2>1 DEF OnLogsPage
<1>5. CASE OnGraphPage
  <2>1. at' = at
    BY <1>5 DEF OnGraphPage, Graph!Next, Graph!BoundsKnown, Graph!ChangeProject,
             Graph!handleFromDateChange, Graph!handleToDateChange, Graph!DeselectDate,
             Graph!SelectTime, Graph!SelectInterval, Graph!handleRefresh,
             Graph!UsageAnswered, Graph!UsageFails
  <2> QED BY <1>5, <2>1 DEF OnGraphPage
<1>6. CASE OnLivePage
  BY <1>6 DEF OnLivePage
<1>7. CASE UNCHANGED vars
  BY <1>7 DEF vars
<1> QED BY <1>1, <1>2, <1>3, <1>4, <1>5, <1>6, <1>7 DEF Next

LEMMA NextIInv == IInv /\ [Next]_vars => IInv'
<1> SUFFICES ASSUME IInv, [Next]_vars PROVE IInv'
  OBVIOUS
<1>1. (at \in Pages)'
  BY OfPages DEF IInv
<1>2. ProjectInv'
  BY OfPages, ProjectStep DEF IInv
<1>3. RuleInv'
  BY OfPages, RuleStep DEF IInv
<1>4. SettingInv'
  BY OfPages, SettingStep DEF IInv
<1>5. LogsInv'
  BY OfPages, LogsStep DEF IInv
<1>6. GraphInv'
  BY OfPages, GraphStep DEF IInv
<1>7. LiveInv'
  BY OfPages, LiveStep DEF IInv
<1> QED BY <1>1, <1>2, <1>3, <1>4, <1>5, <1>6, <1>7 DEF IInv

\* The inductive invariant holds in every state that can be reached.
THEOREM Invariance == Spec => []IInv
BY InitIInv, NextIInv, PTL DEF Spec

\* The forms, the queries and what the pages show have their types: a filter
\* asks for a page there may be, a range is one of the calendar, the charts hold
\* no more points than can be selected.
THEOREM TypeCorrect == Spec => []TypeOK
<1>1. IInv => TypeOK
  BY DEF IInv, TypeOK, ProjectInv, RuleInv, SettingInv, LogsInv, GraphInv, LiveInv
<1> QED BY <1>1, Invariance, PTL

\* What the user filled in once becomes at most one rule, although its request
\* is retried (baseQueryWithReauth) and its result is not looked at
\* (handleCreateAlert).
THEOREM FilledInOnce == Spec => []OneRulePerFilling
<1>1. IInv => OneRulePerFilling
  BY DEF IInv, OneRulePerFilling, Rule!OneRulePerFilling, RuleInv, Posted
<1> QED BY <1>1, Invariance, PTL

\* A page that waits for nothing, and whose last request did not fail, shows the
\* answer to that request, and the charts over time the newest samples; except
\* for an archive file opened straight from another, a graph whose answers
\* crossed, and a graph of which no control changed since its project did (the
\* queries of Settings, Logs, ArchiveLogs, the two graphs and CreateProject,
\* updateHistoricalData).
THEOREM Settles == Spec => []PageSettles
<1>1. IInv => PageSettles
  BY LogsShow, GraphShows DEF IInv, PageSettles, ProjectInv, SettingInv, LiveInv
<1> QED BY <1>1, Invariance, PTL

\* What is posted as an alert rule has a threshold and a destination, and is
\* for an address that is verified and a value of its field; what is posted as a
\* project is what its form shows (handleCreateAlert, handleSubmit).
THEOREM FormsAreSound == Spec => SentFormIsSound
<1>1. IInv /\ [Next]_vars =>
        [posts' \ posts # {} =>
           /\ form.threshold
           /\ \E d \in Rule!AlertMethods : d[2] # Rule!NoEmail
           /\ \A d \in Rule!AlertMethods : d[1] = "email" => d[2] \in verified \cup {Rule!NoEmail}
           /\ form.log_field_value \in Rule!Values(form.log_field) \cup {""}]_(Rule!vars)
  BY OfPages, RulePosts DEF IInv
<1>2. IInv /\ [Next]_vars =>
        [post' # <<>> /\ post = <<>> =>
           /\ post'[1].name \in ValidNames /\ post'[1].name = inputs.name
           /\ post'[1].described => inputs.described]_(Project!vars)
  BY OfPages, ProjectPosts DEF IInv
<1>3. Spec => Rule!SentRuleIsSound
  BY <1>1, Invariance, PTL DEF Spec, Rule!SentRuleIsSound
<1>4. Spec => Project!PostedIsShown
  BY <1>2, Invariance, PTL DEF Spec, Project!PostedIsShown
<1> QED BY <1>3, <1>4 DEF SentFormIsSound
=============================================================================
