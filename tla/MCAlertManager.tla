--------------------------- MODULE MCAlertManager ---------------------------
(* Model values of AlertManager for TLC.                                   *)
EXTENDS AlertManager

Fields(project, type, metric, field, value, op, n) ==
  [ id |-> n, project_name |-> project, rule_type |-> type,
    metric_name |-> metric, log_field |-> field, log_field_value |-> value,
    operator |-> op, threshold |-> n,
    time_window |-> [number |-> 5, unit |-> "minutes"] ]

cpu60   == Fields("shop", "metric_avg", "cpu_usage", "", "", ">", 60)
cpu80   == Fields("shop", "metric_avg", "cpu_usage", "", "", ">=", 80)
errors  == Fields("shop", "log_count", "", "level", "error", ">", 50)

MCProjects == {"shop", "blog"}
MCRules == {cpu60, cpu80, errors}
MCMethodRows ==
  [r \in MCRules |-> << [method |-> "email", value |-> "ops"] >>]

Reading(cpu, errorLogs, events) ==
  [ cpu |-> cpu, memory |-> NoData, total |-> 3,
    level |-> [l \in {"error", "info"} |-> IF l = "error" THEN errorLogs
                                          ELSE 3 - errorLogs],
    status |-> [c \in {"4xx", "5xx"} |-> 0],
    ip |-> <<2, 1>>, event |-> events ]

(* shop: quiet; a busy processor; a busier one and errors.  blog: quiet.   *)
MCWindows ==
  [p \in MCProjects |->
     IF p = "shop" THEN {Reading(NoData, 0, <<>>), Reading(70, 0, <<>>),
                         Reading(80, 2, <<>>)}
                   ELSE {Reading(NoData, 0, <<2, 1>>)}]
=============================================================================
