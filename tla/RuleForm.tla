------------------------------ MODULE RuleForm ------------------------------
(***************************************************************************)
(* The page on which a user creates alert rules                            *)
(* (client/src/pages/alerts/Alert.jsx): the form, the destinations, the    *)
(* verification of e-mail addresses by a code, and the requests.           *)
(*                                                                         *)
(* The operator, the time window and the severity of a rule are selects    *)
(* with a default each, which nothing else depends on: they are left out,  *)
(* as is the list of rules.  The rule is always posted for the project     *)
(* "project_1", whichever project the page is for, so whether the server   *)
(* finds the e-mail address verified there is open: it may refuse any rule.*)
(*                                                                         *)
(* A filling is what the user does between two resets of the form.         *)
(* MaxRules bounds the rules that are posted, and nobody goes on filling   *)
(* in the form after the last; MaxMails bounds the requests about e-mail   *)
(* addresses.                                                              *)
(*                                                                         *)
(* An operator whose comment says "Changed" is a deliberately wrong        *)
(* version of the one after it.  Nothing uses it: it is there to show      *)
(* that a property notices the mistake it describes.                       *)
(***************************************************************************)
EXTENDS Integers, ReAuthQuery

CONSTANTS Emails,      \* addresses users may enter
          RuleTypes,   \* the cards
          LogValues,   \* LogValues[f]: the values the select for field f has
          MaxRules, MaxMails

VARIABLES
  form,      \* alertForm and selectedRuleType
  dest,      \* selectedMethods, selectedEmails, webhookUrl
  dialog,    \* the two dialogs with emailForm and otpForm
  emails,    \* verifiedEmails and the query for them
  posts,     \* requests to create a rule that are under way
  filling,   \* the number of the filling
  verified,  \* server: addresses verified for the project
  code,      \* server: the code of an address
  stored,    \* server: rules stored, by filling
  rules, mails \* requests so far

server == <<verified, code, stored>>
vars == <<form, dest, dialog, emails, posts, filling, server, rules, mails>>

NoEmail == "none"
LogFields == {"", "level", "status_code", "ip_address"}
Values(f) == IF f \in DOMAIN LogValues THEN LogValues[f] ELSE {}
AllValues == UNION {LogValues[f] : f \in DOMAIN LogValues}
Fillings == 1 .. MaxRules + 1

Form == [type : RuleTypes \cup {""}, log_field : LogFields,
         log_field_value : AllValues \cup {""}, threshold : BOOLEAN]

TypeOK ==
  /\ form \in Form
  /\ dest \in [email : BOOLEAN, webhook : BOOLEAN,
               selectedEmails : Emails \cup {NoEmail}, webhookUrl : BOOLEAN]
  /\ dialog \in [email : BOOLEAN, otp : BOOLEAN,
                 creating : Emails \cup {NoEmail}, \* creatingEmail
                 otpAddress : Emails, entered : {"", "right", "wrong"},
                 verifying : {"", "right", "wrong"}]
  /\ emails \in [listed : SUBSET Emails, asked : BOOLEAN, read : SUBSET Emails]
  /\ posts \subseteq (1 .. MaxRules) \X Fillings
  /\ filling \in Fillings
  /\ verified \subseteq Emails
  /\ code \in [Emails -> {"none", "valid", "expired"}]
  /\ stored \in [Fillings -> Nat]
  /\ rules \in 0 .. MaxRules /\ mails \in 0 .. MaxMails

Empty == [type |-> "", log_field |-> "", log_field_value |-> "",
          threshold |-> FALSE]

Init ==
  /\ form = Empty
  /\ dest = [email |-> FALSE, webhook |-> FALSE, selectedEmails |-> NoEmail,
             webhookUrl |-> FALSE]
  /\ LET address == CHOOSE e \in Emails : TRUE
     IN  dialog = [email |-> FALSE, otp |-> FALSE, creating |-> NoEmail,
                   otpAddress |-> address, entered |-> "", verifying |-> ""]
  /\ emails = [listed |-> {}, asked |-> TRUE, read |-> {}]
  /\ posts = {} /\ filling = 1
  /\ verified = {} /\ code = [e \in Emails |-> "none"]
  /\ stored = [f \in Fillings |-> 0]
  /\ rules = 0 /\ mails = 0

-----------------------------------------------------------------------------
(* The form.  What follows the cards shows only after one is chosen.       *)

Filling == form.type # "" /\ rules < MaxRules

ChooseType(t) ==
  /\ rules < MaxRules
  /\ form' = [form EXCEPT !.type = t]
  /\ UNCHANGED <<dest, dialog, emails, posts, filling, server, rules, mails>>

EnterThreshold ==
  /\ Filling
  /\ form' = [form EXCEPT !.threshold = ~ @]
  /\ UNCHANGED <<dest, dialog, emails, posts, filling, server, rules, mails>>

(* handleLogFilterTypeChange.  Changed: the value of the old field stays.  *)
FilterKeepsValue(f) == [form EXCEPT !.log_field = f]
FilterType(f) == [form EXCEPT !.log_field = f, !.log_field_value = ""]

handleLogFilterTypeChange(f) ==
  /\ Filling /\ form.type = "log_count" /\ f # ""
  /\ form' = FilterType(f)
  /\ UNCHANGED <<dest, dialog, emails, posts, filling, server, rules, mails>>

(* The select for the values of a level or of a status code.               *)
ChooseLogValue ==
  /\ Filling /\ form.type = "log_count"
  /\ \E v \in Values(form.log_field) : form' = [form EXCEPT !.log_field_value = v]
  /\ UNCHANGED <<dest, dialog, emails, posts, filling, server, rules, mails>>

-----------------------------------------------------------------------------
(* The destinations.                                                       *)

ToggleMethod(method) ==
  /\ Filling
  /\ dest' = [dest EXCEPT ![method] = ~ @]
  /\ UNCHANGED <<form, dialog, emails, posts, filling, server, rules, mails>>

SelectEmail(e) ==
  /\ Filling /\ dest.email /\ e \in emails.listed
  /\ dest' = [dest EXCEPT !.selectedEmails = e]
  /\ UNCHANGED <<form, dialog, emails, posts, filling, server, rules, mails>>

EnterWebhook ==
  /\ Filling /\ dest.webhook
  /\ dest' = [dest EXCEPT !.webhookUrl = ~ @]
  /\ UNCHANGED <<form, dialog, emails, posts, filling, server, rules, mails>>

-----------------------------------------------------------------------------
(* Addresses and their codes.                                              *)

(* A dialog is opened with its button; one that is open may be closed at   *)
(* any time.                                                               *)
ToggleEmailDialog ==
  /\ Filling /\ dest.email /\ ~ dialog.otp
  /\ dialog' = [dialog EXCEPT !.email = ~ @]
  /\ UNCHANGED <<form, dest, emails, posts, filling, server, rules, mails>>

CloseOtpDialog ==
  /\ dialog.otp
  /\ dialog' = [dialog EXCEPT !.otp = FALSE]
  /\ UNCHANGED <<form, dest, emails, posts, filling, server, rules, mails>>

(* handleCreateEmail up to its await, for the address in the dialog ...    *)
handleCreateEmail(e) ==
  /\ dialog.email /\ dialog.creating = NoEmail
  /\ mails < MaxMails /\ mails' = mails + 1
  /\ dialog' = [dialog EXCEPT !.creating = e]
  /\ UNCHANGED <<form, dest, emails, posts, filling, server, rules>>

(* ... and after it.  RequestEmailVerify refuses an address that is        *)
(* verified already; it stores a code and sends it, which may fail after   *)
(* the code was stored: an answer that is lost is the same to the page.    *)
EmailCreated ==
  /\ dialog.creating # NoEmail
  /\ \E q \in Query, e \in {dialog.creating} :
       /\ Applied(q) > 0 => e \notin verified
       /\ code' = IF Applied(q) > 0 THEN [code EXCEPT ![e] = "valid"] ELSE code
       /\ dialog' =
            IF Result(q) = "done"
            THEN [dialog EXCEPT !.creating = NoEmail, !.email = FALSE,
                                !.otp = TRUE, !.otpAddress = e, !.entered = ""]
            ELSE [dialog EXCEPT !.creating = NoEmail,
                                !.entered = IF Applied(q) > 0 /\ @ = "right"
                                               /\ dialog.otpAddress = e
                                            THEN "wrong" ELSE @]
  /\ UNCHANGED <<form, dest, emails, posts, filling, verified, stored, rules, mails>>

(* The code that was sent last is right.                                   *)
EnterCode ==
  /\ dialog.otp
  /\ \E c \in {"", "right", "wrong"} :
       /\ c = "right" => code[dialog.otpAddress] # "none"
       /\ dialog' = [dialog EXCEPT !.entered = c]
  /\ UNCHANGED <<form, dest, emails, posts, filling, server, rules, mails>>

(* A code is good for five minutes.                                        *)
CodeExpires(e) ==
  /\ code[e] = "valid" /\ code' = [code EXCEPT ![e] = "expired"]
  /\ UNCHANGED <<form, dest, dialog, emails, posts, filling, verified, stored,
                 rules, mails>>

handleVerifyEmail ==
  /\ dialog.otp /\ dialog.verifying = "" /\ dialog.entered # ""
  /\ mails < MaxMails /\ mails' = mails + 1
  /\ dialog' = [dialog EXCEPT !.verifying = dialog.entered]
  /\ UNCHANGED <<form, dest, emails, posts, filling, server, rules>>

(* The addresses are asked for; while that is under way another request    *)
(* for them is dropped.                                                    *)
Refetched == [emails EXCEPT !.asked = TRUE]

(* On an error the code is taken out of the form, unless it was edited     *)
(* meanwhile.  The code is not used up.                                    *)
EmailVerified ==
  /\ dialog.verifying # ""
  /\ \E q \in Query, e \in {dialog.otpAddress} :
       /\ Applied(q) > 0 => dialog.verifying = "right" /\ code[e] = "valid"
       /\ verified' = IF Applied(q) > 0 THEN verified \cup {e} ELSE verified
       /\ dialog' = IF Result(q) = "done"
                    THEN [dialog EXCEPT !.verifying = "", !.otp = FALSE]
                    ELSE [dialog EXCEPT !.verifying = "",
                            !.entered = IF @ = dialog.verifying THEN "" ELSE @]
  /\ emails' = Refetched
  /\ UNCHANGED <<form, dest, posts, filling, code, stored, rules, mails>>

(* The query for the addresses reads them, and is answered later, or fails.*)
ReadEmails ==
  /\ emails.asked /\ emails' = [emails EXCEPT !.read = verified]
  /\ UNCHANGED <<form, dest, dialog, posts, filling, server, rules, mails>>

EmailsAnswered ==
  /\ emails.asked
  /\ \E ok \in BOOLEAN :
       emails' = [listed |-> IF ok THEN emails.read ELSE emails.listed,
                  asked |-> FALSE, read |-> {}]
  /\ UNCHANGED <<form, dest, dialog, posts, filling, server, rules, mails>>

-----------------------------------------------------------------------------
(* The rule.                                                               *)

(* The button is disabled while a rule is being created.                   *)
(* Changed: it is not.                                                     *)
EverEnabled == TRUE
CreateEnabled == posts = {}

(* The address goes with the method, the URL of the webhook with its text. *)
AlertMethods ==
  (IF dest.email THEN {<<"email", dest.selectedEmails>>} ELSE {})
  \cup (IF dest.webhookUrl THEN {<<"webhook", "url">>} ELSE {})

(* Changed: without a destination it is posted all the same.               *)
AnyMethods(methods) == TRUE
SomeMethod(methods) == methods # {}

(* handleCreateAlert up to its await, and the guard of its button ...      *)
handleCreateAlert ==
  /\ form.type # "" /\ form.threshold
  /\ dest.selectedEmails # NoEmail \/ dest.webhookUrl
  /\ CreateEnabled /\ SomeMethod(AlertMethods)
  /\ rules < MaxRules /\ rules' = rules + 1
  /\ posts' = posts \cup {<<rules', filling>>}
  /\ UNCHANGED <<form, dest, dialog, emails, filling, server, mails>>

(* The rule is stored before its destinations, so that CreateAlert may     *)
(* refuse when it is stored already.                                       *)
StoredBy(q) ==
  Applied(q) .. Applied(q) + Cardinality({i \in DOMAIN q : q[i] = "refused"})

(* ... and after it: whatever the answer, the form is emptied, also of     *)
(* what was entered meanwhile.                                             *)
AlertCreated(p) ==
  /\ p \in posts
  /\ posts' = posts \ {p}
  /\ \E q \in Query : \E n \in StoredBy(q) : stored' = [stored EXCEPT ![p[2]] = @ + n]
  /\ form' = Empty
  /\ dest' = [dest EXCEPT !.selectedEmails = NoEmail, !.webhookUrl = FALSE]
  /\ filling' = IF p[2] = filling THEN filling + 1 ELSE filling
  /\ UNCHANGED <<dialog, emails, verified, code, rules, mails>>

-----------------------------------------------------------------------------
Next ==
  \/ \E t \in RuleTypes : ChooseType(t)
  \/ \E f \in LogFields : handleLogFilterTypeChange(f)
  \/ EnterThreshold \/ ChooseLogValue \/ EnterWebhook
  \/ \E method \in {"email", "webhook"} : ToggleMethod(method)
  \/ \E e \in Emails : SelectEmail(e) \/ handleCreateEmail(e) \/ CodeExpires(e)
  \/ ToggleEmailDialog \/ CloseOtpDialog \/ EnterCode
  \/ EmailCreated \/ handleVerifyEmail \/ EmailVerified
  \/ ReadEmails \/ EmailsAnswered
  \/ handleCreateAlert \/ \E p \in posts : AlertCreated(p)

(* A rule that is posted has a threshold and a destination that is not     *)
(* empty; an e-mail address among its destinations is verified at the      *)
(* server; and the value it looks for belongs to the field it looks at,    *)
(* after any changes of type and filter, and resets in between.            *)
(* (handleCreateAlert, handleLogFilterTypeChange, the guard of the button) *)
SentRuleIsSound ==
  [][posts' \ posts # {} =>
       /\ form.threshold
       /\ \E d \in AlertMethods : d[2] # NoEmail
       /\ \A d \in AlertMethods : d[1] = "email" => d[2] \in verified \cup {NoEmail}
       /\ form.log_field_value \in Values(form.log_field) \cup {""}]_vars

(* What the user filled in once is stored at most once, although the       *)
(* request is retried, may be lost, and the page takes no notice of its    *)
(* result.  (baseQueryWithReauth, handleCreateAlert)                       *)
OneRulePerFilling == \A f \in Fillings : stored[f] <= 1
=============================================================================
