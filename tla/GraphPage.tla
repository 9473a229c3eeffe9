------------------------------ MODULE GraphPage ------------------------------
(***************************************************************************)
(* The graphs of processor and memory usage (CpuUsageGraph.jsx and         *)
(* MemoryUsageGraph.jsx of client/src/components/metrics): the controls    *)
(* for a range of time, the two effects that adjust and request it, and    *)
(* the answers.                                                            *)
(*                                                                         *)
(* Dates are instants in hours of local time, DayHours to a day; the ISO   *)
(* date that getAvailableHours compares is in UTC, Offset hours behind.    *)
(* Now stands still.  MaxPicks bounds what the user changes.               *)
(*                                                                         *)
(* The page of another project keeps the component.  The request carries   *)
(* the project of the address, but the effect does not depend on it: what  *)
(* the graph shows stays that of the old project until a control changes.  *)
(*                                                                         *)
(* An operator whose comment says "Changed" is a deliberately wrong        *)
(* version of the one after it.  Nothing uses it: it is there to show      *)
(* that a property notices the mistake it describes.                       *)
(***************************************************************************)
EXTENDS Integers, SequencesExt

CONSTANTS Projects,
          Bounds,    \* pairs of the first and the last date with metrics
          Now, DayHours, Offset, MaxPicks

VARIABLES
  at,        \* "cpu" or "memory"
  projectName, \* of the address
  bounds,    \* <<minDate, maxDate>>, or <<>> while there are none
  boundsDue, \* the bounds of the project are requested
  controls,  \* fromDate, fromTime, toDate, toTime, timeRange
  request,   \* ranges requested and not answered, in order, and the last one
  data,      \* the range of the data, or <<>>
  view,      \* what apiData is: none yet, something, or empty
  alive,     \* the page has not crashed, and has not gone to an error page
  picks

vars == <<at, projectName, bounds, boundsDue, controls, request, data, view, alive,
          picks>>

Dates == 0 .. Now
Hours == 0 .. DayHours - 1
Hour(d) == d % DayHours                    \* getHours()
Midnight(d) == d - Hour(d)
IsoDay(d) == (d - Offset) \div DayHours    \* toISOString().split("T")[0]

(* fromDate and toDate at the hours that are selected, both in local time, *)
(* of project p.                                                           *)
Ranges == (0 .. Now + DayHours) \X (0 .. Now + DayHours) \X {"hour", "day"}
          \X Projects
RangeOf(c, p) ==
  <<Midnight(c.from) + c.fromTime, Midnight(c.to) + c.toTime, c.group, p>>
ProjectOf(range) == range[4]

TypeOK ==
  /\ projectName \in Projects
  /\ bounds \in Bounds \cup {<<>>} /\ boundsDue \in BOOLEAN
  /\ controls \in [from : Dates, fromTime : Hours, to : Dates, toTime : Hours,
                   group : {"hour", "day"}]
  /\ request.pending \in Seq(Ranges) /\ IsInjective(request.pending)
  /\ request.asked \in Ranges
  /\ {request.failed, request.crossed} \subseteq BOOLEAN
  /\ data \in Ranges \cup {<<>>}
  /\ view \in {"none", "graph", "blank"}
  /\ alive \in BOOLEAN
  /\ picks \in 0 .. MaxPicks

-----------------------------------------------------------------------------
(* fetchData for the controls c and project p.  A range that is requested  *)
(* already is not requested again.  crossed: data may come from an answer  *)
(* that is not the one to the last request, because each answer is taken   *)
(* as it comes.                                                            *)
Fetch(r, c, p) ==
  LET a == RangeOf(c, p)
  IN  [pending |-> IF Contains(r.pending, a) THEN r.pending ELSE Append(r.pending, a),
       asked   |-> a,
       failed  |-> FALSE,
       crossed |-> r.pending # <<>> /\ (r.crossed \/ (Contains(r.pending, a)
                                                      /\ Last(r.pending) # a))]

(* The effect that adjusts dates to the bounds b, after every rendering.   *)
(* Changed: it adjusts only what is too early.                             *)
ClampStart(b, c) ==
  IF b # <<>> /\ c.from < b[1] THEN [c EXCEPT !.from = b[1], !.fromTime = Hour(b[1])]
  ELSE c
Clamp(b, c) ==
  LET Outside(d) == b # <<>> /\ (d < b[1] \/ d > b[2])
      start == IF Outside(c.from)
               THEN [c EXCEPT !.from = b[1], !.fromTime = Hour(b[1])] ELSE c
  IN  IF Outside(c.to)
      THEN [start EXCEPT !.to = b[2], !.toTime = Hour(b[2])] ELSE start

(* The controls have become c: the other effect requests them, and once    *)
(* more when they are adjusted.                                            *)
Render(c) ==
  LET new == Clamp(bounds, c)
      r   == Fetch(request, c, projectName)
  IN  controls' = new /\ request' = IF new = c THEN r ELSE Fetch(r, new, projectName)

Init ==
  /\ projectName = CHOOSE p \in Projects : TRUE
  /\ bounds = <<>> /\ boundsDue = TRUE
  /\ controls = [from |-> Now - DayHours, fromTime |-> 0, to |-> Now,
                 toTime |-> Hour(Now), group |-> "hour"]
  /\ \E range \in {RangeOf(controls, projectName)} :
       request = [pending |-> <<range>>, asked |-> range, failed |-> FALSE,
                  crossed |-> FALSE]
  /\ data = <<>> /\ view = "none"
  /\ alive = TRUE
  /\ picks = 0

(* The bounds of the project are answered: there are none without metrics, *)
(* and the last ones stay after an error, as they do until then.           *)
BoundsKnown ==
  /\ alive /\ boundsDue
  /\ bounds' \in Bounds \cup {<<>>, bounds} /\ boundsDue' = FALSE
  /\ controls' = Clamp(bounds', controls)
  /\ request' = IF controls' = controls THEN request
                ELSE Fetch(request, controls', projectName)
  /\ UNCHANGED <<at, projectName, data, view, alive, picks>>

-----------------------------------------------------------------------------
(* The user.                                                               *)

Pick == alive /\ picks < MaxPicks /\ picks' = picks + 1

(* The address of the page for another project.                            *)
ChangeProject ==
  /\ Pick
  /\ projectName' \in Projects \ {projectName} /\ boundsDue' = TRUE
  /\ UNCHANGED <<at, bounds, controls, request, data, view, alive>>

(* getAvailableHours, which compares days in UTC and takes hours in local  *)
(* time.                                                                   *)
AvailableHours(d) ==
  IF bounds = <<>> THEN {}
  ELSE (IF IsoDay(d) = IsoDay(bounds[1]) THEN Hour(bounds[1]) ELSE 0)
       .. (IF IsoDay(d) = IsoDay(bounds[2]) THEN Hour(bounds[2]) ELSE DayHours - 1)

First(H) == CHOOSE h \in H : \A k \in H : h <= k
Final(H) == CHOOSE h \in H : \A k \in H : k <= h

(* Days are offered by their midnight.                                     *)
Offered(d) == /\ d = Midnight(d)
              /\ bounds # <<>> => bounds[1] <= d /\ d <= bounds[2]

(* handleFromDateChange and handleToDateChange.  Without an hour that is   *)
(* available they throw after the date is set.                             *)
handleFromDateChange ==
  /\ Pick /\ view # "blank"
  /\ \E d \in Dates :
       /\ Offered(d)
       /\ Render([controls EXCEPT
                    !.from = d,
                    !.fromTime = IF @ \in AvailableHours(d) \/ AvailableHours(d) = {}
                                 THEN @ ELSE First(AvailableHours(d))])
  /\ UNCHANGED <<at, projectName, bounds, boundsDue, data, view, alive>>

handleToDateChange ==
  /\ Pick /\ view # "blank"
  /\ \E d \in Dates :
       /\ Offered(d)
       /\ Render([controls EXCEPT
                    !.to = d,
                    !.toTime = IF @ \in AvailableHours(d) \/ AvailableHours(d) = {}
                               THEN @ ELSE Final(AvailableHours(d))])
  /\ UNCHANGED <<at, projectName, bounds, boundsDue, data, view, alive>>

(* The day that is selected is clicked again: the date becomes undefined,  *)
(* which the graph of processor usage cannot render.  The other one looks  *)
(* for it.                                                                 *)
DeselectDate ==
  /\ Pick /\ view # "blank" /\ at = "cpu"
  /\ alive' = FALSE
  /\ UNCHANGED <<at, projectName, bounds, boundsDue, controls, request, data, view>>

SelectTime ==
  /\ Pick /\ view # "blank"
  /\ \/ \E h \in AvailableHours(controls.from) \ {controls.fromTime} :
          Render([controls EXCEPT !.fromTime = h])
     \/ \E h \in AvailableHours(controls.to) \ {controls.toTime} :
          Render([controls EXCEPT !.toTime = h])
  /\ UNCHANGED <<at, projectName, bounds, boundsDue, data, view, alive>>

SelectInterval ==
  /\ Pick /\ view # "blank"
  /\ Render([controls EXCEPT !.group = IF @ = "hour" THEN "day" ELSE "hour"])
  /\ UNCHANGED <<at, projectName, bounds, boundsDue, data, view, alive>>

(* The button is disabled only until there is a first answer.              *)
handleRefresh ==
  /\ Pick
  /\ view = "none" => ~ Contains(request.pending, request.asked)
  /\ Render([controls EXCEPT !.to = Now, !.toTime = Hour(Now)])
  /\ UNCHANGED <<at, projectName, bounds, boundsDue, data, view, alive>>

-----------------------------------------------------------------------------
(* The answers.                                                            *)

Without(r, i) ==
  [r EXCEPT !.pending = RemoveAt(@, i), !.crossed = @ \/ i > 1]

(* Each one sets the data; apiData is that of the last request.            *)
UsageAnswered(i) ==
  /\ alive /\ i \in DOMAIN request.pending
  /\ data' = request.pending[i]
  /\ view' \in IF data' = request.asked THEN {"graph", "blank"} ELSE {view}
  /\ request' = Without(request, i)
  /\ UNCHANGED <<at, projectName, bounds, boundsDue, controls, alive, picks>>

(* An error of the last request takes the graph of memory usage to a page  *)
(* of its own.                                                             *)
UsageFails(i) ==
  /\ alive /\ i \in DOMAIN request.pending
  /\ \E last \in {request.pending[i] = request.asked} :
       /\ request' = [Without(request, i) EXCEPT !.failed = @ \/ last]
       /\ alive' = ~ (last /\ at = "memory")
  /\ UNCHANGED <<at, projectName, bounds, boundsDue, controls, data, view, picks>>

-----------------------------------------------------------------------------
Next ==
  \/ BoundsKnown \/ ChangeProject \/ handleFromDateChange \/ handleToDateChange \/ DeselectDate
  \/ SelectTime \/ SelectInterval \/ handleRefresh
  \/ \E i \in DOMAIN request.pending : UsageAnswered(i) \/ UsageFails(i)

(* The dates are between the bounds once these are known.  When everything *)
(* is answered and the last request was for the project of the address and *)
(* without an error, the graph shows the range that the controls show, of  *)
(* that project: adjusting the dates, which requests twice, leaves the     *)
(* second answer.  Unless answers crossed: then an older one may stay.     *)
(* (the two effects, fetchData)                                            *)
ShowsRange ==
  /\ bounds # <<>> => {controls.from, controls.to} \subseteq bounds[1] .. bounds[2]
  /\ /\ alive /\ request.pending = <<>> /\ ~ request.failed /\ ~ request.crossed
     /\ ProjectOf(request.asked) = projectName
     => data = RangeOf(controls, projectName)
=============================================================================
