----------------------------- MODULE AlertRules -----------------------------
(***************************************************************************)
(* The pure part of the alert manager: how one alert rule is evaluated     *)
(* against what Elasticsearch answers for its time window, which cooldown  *)
(* key and which group it belongs to, and which rule of a group is         *)
(* reported.  (alert-manager/src/utils/helper.js and the three process...  *)
(* functions of alert-manager/src/functions/alert-cron.js.)                *)
(*                                                                         *)
(* A rule is a record of its row in the table alerts.  A window is what    *)
(* the aggregations return over the rule's time window: averages, counts   *)
(* and the counts of the top buckets, in a record.                         *)
(***************************************************************************)
EXTENDS Integers, FiniteSets, SequencesExt

CONSTANT NoData            \* an average over no sample (null)

Rule ==
  [ id             : Nat,
    project_name   : STRING,
    rule_type      : {"metric_avg", "log_count", "event_count"},
    metric_name    : {"cpu_usage", "memory_usage", ""},
    log_field      : {"level", "status_code", "ip_address", ""},
    log_field_value: STRING,
    operator       : {">", "<", ">=", "<=", "==", "!="},
    threshold      : Nat,
    time_window    : [number : Int, unit : STRING] ]

-----------------------------------------------------------------------------
(* operators[op]?.(a, b): an operator that is not in the table is          *)
(* undefined, which is not satisfied.                                      *)
Satisfies(op, a, b) ==
  \/ op = ">"  /\ a > b
  \/ op = "<"  /\ a < b
  \/ op = ">=" /\ a >= b
  \/ op = "<=" /\ a <= b
  \/ op = "==" /\ a = b
  \/ op = "!=" /\ a # b

(* timewindowFormater throws on anything else than "<positive> <unit>".    *)
ValidTimeWindow(tw) ==
  /\ tw.number > 0
  /\ tw.unit \in {"day", "days", "hour", "hours", "minute", "minutes",
                  "second", "seconds"}

(* An average of no sample is null, which never triggers.                  *)
MetricTriggers(r, w) ==
  LET average == CASE r.metric_name = "cpu_usage"    -> w.cpu
                   [] r.metric_name = "memory_usage" -> w.memory
                   [] OTHER                          -> NoData
  IN  average # NoData /\ Satisfies(r.operator, average, r.threshold)

(* count / total * 100 against the threshold, without a division.          *)
ShareTriggers(r, count, total) ==
  total # 0 /\ Satisfies(r.operator, 100 * count, r.threshold * total)

LevelTriggers(r, w) ==
  ShareTriggers(r, w.level[r.log_field_value], w.total)

StatusCodeTriggers(r, w) ==
  /\ r.log_field_value \in {"4xx", "5xx"}
  /\ ShareTriggers(r, w.status[r.log_field_value], w.total)

(* parseFloat(((count / total) * 100).toFixed(2)), in hundredths.          *)
Hundredths(count, total) == (20000 * count + total) \div (2 * total)

(* The shares of the buckets are taken of the ten buckets returned, not of *)
(* all the logs; the first bucket that satisfies the rule triggers it.     *)
BucketsTrigger(r, buckets) ==
  LET total == FoldSeq(LAMBDA n, m : n + m, 0, buckets)
  IN  /\ total # 0
      /\ \E i \in DOMAIN buckets :
           Satisfies(r.operator, Hundredths(buckets[i], total),
                     100 * r.threshold)

IpAddressTriggers(r, w) == BucketsTrigger(r, w.ip)

EventTriggers(r, w) == BucketsTrigger(r, w.event)

Triggers(r, w) ==
  \/ r.rule_type = "metric_avg" /\ MetricTriggers(r, w)
  \/ /\ r.rule_type = "log_count"
     /\ \/ r.log_field = "level" /\ LevelTriggers(r, w)
        \/ r.log_field = "status_code" /\ StatusCodeTriggers(r, w)
        \/ r.log_field = "ip_address" /\ IpAddressTriggers(r, w)
  \/ r.rule_type = "event_count" /\ EventTriggers(r, w)

-----------------------------------------------------------------------------
(* Rows without a method or with a blank value name no destination; an     *)
(* unknown method is kept.                                                 *)
formatAlertMethods(rows) ==
  SelectSeq(rows, LAMBDA row : row.method # "" /\ row.value # "")

createAlertCacheKey(r) ==
  CASE r.rule_type = "metric_avg"  -> <<r.project_name, r.rule_type,
                                        r.metric_name, r.threshold, r.operator>>
    [] r.rule_type = "log_count"   -> <<r.project_name, r.rule_type,
                                        r.log_field, r.log_field_value,
                                        r.threshold, r.operator>>
    [] r.rule_type = "event_count" -> <<r.project_name, r.rule_type,
                                        r.threshold, r.operator>>

(* The group of a log_count rule has the field but not its value.          *)
GroupOf(r) ==
  CASE r.rule_type = "metric_avg"  -> <<r.project_name, r.rule_type, r.metric_name>>
    [] r.rule_type = "log_count"   -> <<r.project_name, r.rule_type, r.log_field>>
    [] r.rule_type = "event_count" -> <<r.project_name, r.rule_type, "">>

calculatePriority(r) ==
  IF r.operator \in {"<", "<="} THEN 100 - r.threshold ELSE r.threshold

(* The rows come ordered by falling threshold and the sort is stable, so   *)
(* of two rules of one priority the one with the higher threshold is kept. *)
Outranks(r, s) ==
  \/ calculatePriority(r) > calculatePriority(s)
  \/ /\ calculatePriority(r) = calculatePriority(s)
     /\ r.threshold > s.threshold

(* One rule of each group, none of its group outranking it.  Rows with one *)
(* threshold come in any order.                                            *)
IsSelection(sel, triggered) ==
  /\ sel \subseteq triggered
  /\ \A r \in triggered : \E s \in sel : GroupOf(s) = GroupOf(r)
  /\ \A s \in sel, r \in triggered :
       GroupOf(s) = GroupOf(r) => ~ Outranks(r, s)
  /\ \A s, t \in sel : GroupOf(s) = GroupOf(t) => s = t
=============================================================================
