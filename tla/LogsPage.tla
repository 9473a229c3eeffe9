------------------------------ MODULE LogsPage ------------------------------
(***************************************************************************)
(* The list of a project's stored logs (client/src/components/logs/Logs)   *)
(* or of the logs in an archive file (ArchiveLogs): filter, pagination,    *)
(* and the lazy query of RTK Query that an effect triggers.                *)
(*                                                                         *)
(* The two dates of the filter are one; the bounds of the calendar are     *)
(* left out, they only grey days out.  A source is a project, or an        *)
(* archive file of one project.  MaxAsks bounds the triggers.              *)
(*                                                                         *)
(* A failed query for the project ends the page: ProjectNotFound and       *)
(* ProjectError, which would replace it, use components they do not        *)
(* import, and reading an error without data throws before that.           *)
(*                                                                         *)
(* An operator whose comment says "Changed" is a deliberately wrong        *)
(* version of the one after it.  Nothing uses it: it is there to show      *)
(* that a property notices the mistake it describes.                       *)
(***************************************************************************)
EXTENDS Integers, FiniteSets, FiniteSetsExt

CONSTANTS Modes, Sources, MaxPages,
          MaxLinks,   \* maxPages of getPageNumbers
          MaxAsks

VARIABLES
  at,        \* the page: "logs", "archive" or one that asks for nothing here
  filter,    \* the state of the component and the parameters of its address
  asked,     \* the filter of the last trigger
  pending,   \* the filters requested
  list,      \* logsData: the filter it was requested with, and its pages
  failed,    \* logError
  jumped,    \* history: the archive file changed since the last trigger
  answer,    \* of the query for the project
  asks

vars == <<at, filter, asked, pending, list, failed, jumped, answer, asks>>

Filter == [date : BOOLEAN, sortDate : {"asc", "desc"}, logType : Modes \cup {"all"},
           page : 1 .. MaxPages, source : Sources]

TypeOK ==
  /\ {filter, asked} \subseteq Filter /\ pending \subseteq Filter
  /\ list.pages \in 0 .. MaxPages
  /\ list.pages > 0 => list.of \in Filter
  /\ failed \in BOOLEAN /\ jumped \in BOOLEAN
  /\ answer \in {"awaited", "given", "failed"}
  /\ asks \in 0 .. MaxAsks

Cleared(source) == [date |-> FALSE, sortDate |-> "desc", logType |-> "all",
                    page |-> 1, source |-> source]

Init ==
  /\ filter = Cleared(CHOOSE s \in Sources : TRUE)
  /\ asked = filter /\ pending = {filter}
  /\ list = [of |-> filter, pages |-> 0]
  /\ failed = FALSE /\ jumped = FALSE
  /\ answer \in (IF at \in {"logs", "archive"} THEN {"awaited", "given"} ELSE {"given"})
  /\ asks = 0

-----------------------------------------------------------------------------
(* getPageNumbers: a window of links around the current page.              *)
PageNumbers(page, pages) ==
  IF pages <= MaxLinks THEN 1 .. pages
  ELSE LET start == Max({1, page - MaxLinks \div 2})
           end   == Min({pages, start + MaxLinks - 1})
       IN  (IF end - start + 1 < MaxLinks THEN Max({1, end - MaxLinks + 1})
                                          ELSE start) .. end

(* getLogs: what is requested already is not requested again.              *)
Trigger(f) ==
  /\ asks < MaxAsks /\ asks' = asks + 1
  /\ asked' = f
  /\ pending' = pending \cup {f}
  /\ failed' = FALSE /\ jumped' = FALSE

(* The effect runs when the filter f differs from the last in what it      *)
(* depends on.  Changed: it does not depend on the page.                   *)
PageIgnored(f) ==
  IF [f EXCEPT !.page = filter.page] # filter THEN Trigger(f)
  ELSE UNCHANGED <<asked, pending, failed, jumped, asks>>
Effect(f) == Trigger(f)

Change(f) ==
  /\ f # filter /\ filter' = f /\ Effect(f)
  /\ UNCHANGED <<at, list, answer>>

(* The user changes the filter.  The page stays as it is.                  *)
PickDate == \E d \in BOOLEAN : Change([filter EXCEPT !.date = d])
toggleDateSort ==
  Change([filter EXCEPT !.sortDate = IF @ = "desc" THEN "asc" ELSE "desc"])
SelectLogType == \E m \in Modes \cup {"all"} : Change([filter EXCEPT !.logType = m])

(* Both toggle a state that the effect depends on.                         *)
Refresh == filter' = filter /\ Trigger(filter) /\ UNCHANGED <<at, list, answer>>
clearFilters ==
  /\ filter' = Cleared(filter.source)
  /\ Trigger(filter')
  /\ UNCHANGED <<at, list, answer>>

(* The pagination, over the pages of the list that is shown: the link to   *)
(* the next page ends at the last.  Changed: it does not.                  *)
BeyondLast(page, pages) == page + 1
NextLink(page, pages) == Min({page + 1, pages})

Links == PageNumbers(filter.page, list.pages) \cup {1, list.pages}
         \cup {Max({filter.page - 1, 1}), NextLink(filter.page, list.pages)}

GoToPage ==
  /\ list.pages > 1
  /\ \E p \in Links : Change([filter EXCEPT !.page = p])

(* Another address of the same page: another file of the same project,     *)
(* whose name the effect of ArchiveLogs does not depend on, or another     *)
(* project, which is in the cache or not.                                  *)
Navigate ==
  \E s \in Sources \ {filter.source} :
    /\ filter' = [filter EXCEPT !.source = s]
    /\ IF at = "archive"
       THEN jumped' = TRUE /\ UNCHANGED <<asked, pending, failed, answer, asks>>
       ELSE answer' \in {"awaited", "given"} /\ Effect(filter')
    /\ UNCHANGED <<at, list>>

(* The query for the project is answered.                                  *)
ProjectAnswered ==
  /\ answer = "awaited" /\ answer' \in {"given", "failed"}
  /\ UNCHANGED <<at, filter, asked, pending, list, failed, jumped, asks>>

(* Answers in any order.  Only the one to the last trigger shows; an       *)
(* error, which an empty list is too, leaves the list as it was.           *)
LogsAnswered(f) ==
  /\ f \in pending
  /\ pending' = pending \ {f}
  /\ \/ \E n \in 1 .. MaxPages :
          IF f = asked
          THEN list' = [of |-> f, pages |-> n] /\ failed' = FALSE
          ELSE UNCHANGED <<list, failed>>
     \/ failed' = (failed \/ f = asked) /\ UNCHANGED list
  /\ UNCHANGED <<at, filter, asked, jumped, answer, asks>>

-----------------------------------------------------------------------------
Next ==
  /\ answer # "failed"
  /\ \/ PickDate \/ toggleDateSort \/ SelectLogType \/ Refresh \/ clearFilters
     \/ GoToPage \/ Navigate \/ ProjectAnswered
     \/ \E f \in pending : LogsAnswered(f)

(* When the last request is answered without an error, the list is the one *)
(* for the filter that is shown, however the answers were ordered; unless  *)
(* the user went from one archive file straight to another.  The page that *)
(* is shown is among the links, and every link leads to a page.            *)
(* (the effect of Logs and ArchiveLogs, getPageNumbers)                    *)
ShowsFilter ==
  /\ asked \notin pending /\ ~ failed /\ ~ jumped => list.of = filter
  /\ list.pages > 1 =>
       /\ filter.page <= list.pages => filter.page \in PageNumbers(filter.page, list.pages)
       /\ filter.page <= list.pages => Links \subseteq 1 .. list.pages
       /\ Cardinality(PageNumbers(filter.page, list.pages)) <= MaxLinks
=============================================================================
