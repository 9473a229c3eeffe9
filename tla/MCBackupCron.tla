---------------------------- MODULE MCBackupCron ----------------------------
(* Model values of BackupCron for TLC.                                     *)
EXTENDS BackupCron

MCProjects == {"shop", "blog"}
MCCreated == [p \in MCProjects |-> IF p = "shop" THEN 0 ELSE 2]
MCRetention == [p \in MCProjects |-> 1]

Document(p, k, m, n) == [project |-> p, kind |-> k, month |-> m, id |-> n]

(* Two logs of one month, so that one may come after the other is fetched; *)
(* a log of the next month; another project's; and a metric.               *)
MCDocuments ==
  { Document("shop", "logs", 1, 1), Document("shop", "logs", 1, 2),
    Document("shop", "logs", 2, 1), Document("blog", "logs", 2, 1),
    Document("shop", "metrics", 1, 1) }
=============================================================================
