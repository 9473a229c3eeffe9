-------------------------- MODULE LiveMetricsPanel --------------------------
(***************************************************************************)
(* The charts over time of the live metrics (client/src/components/        *)
(* metrics/LiveMetrics.jsx), which show historicalData, over the list that *)
(* Monitoring keeps of the samples of the stream, newest arrival first.    *)
(* The effect appends the whole list to what is shown each time the list   *)
(* changes, so a sample is shown again and again; sorting and cutting      *)
(* happen after that.                                                      *)
(*                                                                         *)
(* Left out is what shows one sample, latestMetrics: the usage by core and *)
(* the details.  The code takes the last of the list for it, which is the  *)
(* oldest.                                                                 *)
(*                                                                         *)
(* A sample is its timestamp.  Samples of several services arrive out of   *)
(* order, and again when the consumer of the server starts anew.           *)
(* MaxArrivals bounds them.                                                *)
(*                                                                         *)
(* An operator whose comment says "Changed" is a deliberately wrong        *)
(* version of the one after it.  Nothing uses it: it is there to show      *)
(* that a property notices the mistake it describes.                       *)
(***************************************************************************)
EXTENDS Integers, SequencesExt

CONSTANTS Samples,      \* timestamps
          MaxKept,      \* the latest 100 metrics
          Sizes,        \* numbers of data points to select from
          MaxArrivals

VARIABLES
  metrics,        \* metricsData of Monitoring
  historical,     \* historicalData: timestamps of the points, left to right
  maxDataPoints,
  effectDue,      \* the list or the size changed since the effect ran
  arrivals

vars == <<metrics, historical, maxDataPoints, effectDue, arrivals>>

TypeOK ==
  /\ metrics \in Seq(Samples) /\ Len(metrics) <= MaxKept
  /\ historical \in Seq(Samples) /\ \E n \in Sizes : Len(historical) <= n
  /\ maxDataPoints \in Sizes
  /\ effectDue \in BOOLEAN
  /\ arrivals \in 0 .. MaxArrivals

Init ==
  /\ metrics = <<>> /\ historical = <<>>
  /\ maxDataPoints = CHOOSE n \in Sizes : TRUE
  /\ effectDue = FALSE
  /\ arrivals = 0

-----------------------------------------------------------------------------
Kept(s, n) == SubSeq(s, 1, IF Len(s) < n THEN Len(s) ELSE n)

(* updateMetricsData: a sample equal to the last one is dropped.           *)
MetricArrives(t) ==
  /\ arrivals < MaxArrivals /\ arrivals' = arrivals + 1
  /\ IF metrics # <<>> /\ metrics[1] = t
     THEN UNCHANGED <<metrics, effectDue>>
     ELSE metrics' = Kept(<<t>> \o metrics, MaxKept) /\ effectDue' = TRUE
  /\ UNCHANGED <<historical, maxDataPoints>>

SelectSize(n) ==
  /\ n # maxDataPoints /\ maxDataPoints' = n /\ effectDue' = TRUE
  /\ UNCHANGED <<metrics, historical, arrivals>>

(* combined.sort(...), which is stable: the element at i comes after those *)
(* that are less and the equal ones up to it.  Changed: not sorted.        *)
AsAppended(s) == s
Place(s, i) ==
  Cardinality({j \in DOMAIN s : s[j] < s[i] \/ (s[j] = s[i] /\ j <= i)})
Sorted(s) ==
  [k \in 1 .. Len(s) |-> s[CHOOSE i \in DOMAIN s : Place(s, i) = k]]

(* slice(-maxDataPoints)                                                   *)
Newest(s, n) == SubSeq(s, IF Len(s) < n THEN 1 ELSE Len(s) - n + 1, Len(s))

(* updateHistoricalData: an empty list is left alone.                      *)
UpdateHistoricalData ==
  /\ effectDue /\ effectDue' = FALSE
  /\ historical' = IF metrics = <<>> THEN historical
                   ELSE Newest(Sorted(historical \o metrics), maxDataPoints)
  /\ UNCHANGED <<metrics, maxDataPoints, arrivals>>

-----------------------------------------------------------------------------
Next ==
  \/ \E t \in Samples : MetricArrives(t)
  \/ \E n \in Sizes : SelectSize(n)
  \/ UpdateHistoricalData

(* The charts over time leave a sample out only for newer ones, and show   *)
(* as many points as were selected at most, although every sample is       *)
(* appended again and again and what is shown outlives the list.           *)
(* (updateHistoricalData)                                                  *)
ShowsNewest ==
  ~ effectDue /\ metrics # <<>> =>
    /\ Len(historical) \in 1 .. maxDataPoints
    /\ \A s \in Range(metrics) \ Range(historical), t \in Range(historical) : t > s
=============================================================================
