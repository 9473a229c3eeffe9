# LogBoy in TLA+

LogBoy collects logs and metrics of Node.js services, stores them in
Elasticsearch, streams them live to browsers and raises alerts. This directory
holds TLA+ models of its parts, the TLC configurations that check them on small
instances, and proofs, checked by TLAPS, that hold for every instance.

Paths below are relative to `src/`; `server/` is the main Go server.

## The system

```
 application                gRPC gateway            Kafka               server                      Elasticsearch
 logboy-express  --stream-> serialize, produce --> logs-<svc>    --> log consumer     --bulk-->    logs-<svc>
 (log, metric               (auth at stream        metrics-<svc> --> metrics consumer --bulk-->    m-<svc>-<day>
  transports)                open)                                     | broadcast
                                                                       v
 browsers  <------------------ server-sent events ----------------- SSE hubs (logs, metrics, alerts)
                                                                       ^ broadcast
 alert-manager (cron, every minute) -- publish --> Redis "alerts" --> alert monitor -- index, mail
 backup-cron (monthly): Elasticsearch --> files in Azure Data Lake, then delete (meant; see below)
```

| Component | Code | State it keeps | Operations | Hard because | Correct when |
|---|---|---|---|---|---|
| Log consumer | `server/internal/log_consumer/logsConsumer.go`, `server/config/kafka.go` | a batch per service (buffer, debounce timer, mutex); marked and committed offsets; a consumer group session | receive, add to batch, flush by timer or size, mark, commit, rebalance | goroutines per partition and per timer, commits ahead of storage, failing bulk requests, restarts | no committed log is forgotten silently; every buffered log has a flush to come; sessions end |
| Live log and alert streams | `server/internal/services/server_sent_events/LogsSSE.go`, `AlertSSE.go`, `resthandlers/logs_handler.go`, `alert_handler.go` | three maps of clients and channels; a fan-out goroutine per project; cleanup timers | register, unregister, get channel, broadcast, fan out, heartbeat, delayed cleanup | tabs share the client of their user; cleanup after ten seconds; closing channels others read or write | maps agree, channels are closed once, no client or stream leaks, a channel carries its project only |
| Live metric streams | `MetricsSSE.go`, `metrics_handler.go` | the same maps, unbuffered client channels | the same, with immediate removal | sends that find nobody waiting are dropped | as above |
| Metrics consumer | `server/internal/metrics_consumer/metricConsumer.go` | as the log consumer | as the log consumer; the index is named after the day of the flush | as above; midnight | as above; no duplicates |
| Topic watcher | `logsConsumer.go` `Start`, `kafka.go` `StartConsumer` | current topics, a context that is replaced, error channels | poll topics, cancel, restart the consumer | captured variables, goroutines left behind, bounded error channels | one consumer at a time, on the latest topics |
| Projects and topics | `project_handler.go`, `ProjectServices.go`, `project_pg.go`, `server/config/KafkaTopicManager.go` | rows of projects, Kafka topics, project keys | create, delete, update, generate a key | several steps without a transaction | a project has both of its topics |
| Alert monitor | `server/internal/redis_pubsub/AlertMonitor.go` | none (Redis subscription) | receive, broadcast, mail, index | nothing is redelivered; message types | every published alert is recorded |
| Alert manager | `alert-manager/src/functions/alert-cron.js`, `utils/helper.js` | database pool, cooldown keys in Redis | tick: evaluate, group, choose, filter by cooldown, publish | ticks that overlap, pool exhaustion, failure between cooldown and publication | an alert is sent once per cooldown, and not silenced unsent |
| gRPC gateway | `gRPC-gateway/` | the open streams | authenticate a stream, receive, serialize, produce | errors are logged only; the acknowledgement comes at the end | what is acknowledged was produced |
| SDK (logger and transports) | `logboy-express/src/` | two streams, connecting flag, timers, the monitor's interval | log, sample, stop monitoring, close, reconnect with backoff | callbacks, dead streams, timers nobody cancels | monitoring never dies silently; nothing is left open after a close |
| Server main | `server/cmd/main.go` | error channel, context, wait group | start services, shut down within five seconds | blocked senders, services that do not end | shutdown loses nothing |
| Backup cron | `backup-cron/src/functions/backup-cron.js` | local files, files in the data lake | search, write a local file, create directories, upload, clean up | failures and late documents between steps, files left behind | what qualifies is moved, one month to a file, and what is archived stays |
| Alert rules, email codes | `AlertServices.go`, `Alerts_pg.go`, `Alerts_es.go` | rules, one-time codes | create, verify | windows of time | a code works once, in time |
| Web client, live pages | `client/src/pages/logs/LiveWatch.jsx`, `metrics/Monitoring.jsx`, `alerts/Alerts.jsx` | an EventSource, refs and timers of the component, a buffer, lists | set up, retry, hide, show, navigate, leave, batch | awaits and timers in closures of earlier renderings | one EventSource, reconnecting, none left behind, no two entries of one id |
| Web client, forms and queries | `client/src/pages/projects/*.jsx`, `alerts/Alert.jsx`, `components/logs/*.jsx`, `components/metrics/*.jsx`, `services/*.js` | form fields, the queries of RTK Query | edit, post, retry after a 403, ask, page, answer | answers out of order, resets, requests sent again | what is sent is what is shown; a settled page shows the answer to its last request |
| Queries, auth, mail | `log_es.go`, `metrics_es.go`, `pkg/` | none of their own | query building, calls to services | - | not modelled |

`PROJECT.json` lists every component with its sources and status, and the
hazards of the code, each at its line with the properties that watch it.

## Modules

| Module | What it is |
|---|---|
| `IngestLedger` | Abstract: what ingestion promises about each log entry. |
| `LogConsumer` | The log consumer, with Kafka, Elasticsearch and restarts around it. |
| `MCLogConsumer` | `LogConsumer` for TLC: the partitions of one topic. |
| `LogConsumer_proofs` | Theorems about `LogConsumer`, with their proofs. |
| `LogConsumerLedger_proofs` | The proof that `LogConsumer` implements `IngestLedger`. |
| `SSEHub` | The hub for live logs (and, with the same code, alerts) and the tabs that stream from it. |
| `MCSSEHub` | `SSEHub` for TLC: tabs of one or two users. |
| `SSEHub_proofs` | Theorems about `SSEHub`, with their proofs. |
| `AlertRules` | When a rule triggers, how rules are grouped and ranked, the keys of the cooldowns: operators only. |
| `AlertManager` | A run of the alert manager, await by await, with Redis, the pool and the host around it; extends `AlertRules`. |
| `MCAlertManager` | `AlertManager` for TLC: three rules of one project, and a project without rules. |
| `AlertManager_proofs` | Theorems about `AlertManager`, with their proofs. |
| `LogBoySDK` | One LogBoy of the npm package, its two calls and the gateway's end of them. |
| `LogBoySDK_proofs` | Theorems about `LogBoySDK`, with their proofs. |
| `BackupCron` | The monthly run, await by await. |
| `MCBackupCron` | `BackupCron` for TLC: two projects, five documents. |
| `BackupCron_proofs` | Theorems about `BackupCron`, with their proofs. |
| `LivePages` | The three live pages of the web client in one browser tab. |
| `LivePages_proofs` | Theorems about `LivePages`, with their proofs. |
| `ReAuthQuery` | A request with the retry after a 403, which the pages below share. |
| `CreateProjectPage`, `RuleForm`, `SettingsPage`, `LogsPage`, `GraphPage`, `LiveMetricsPanel` | One page, or part of a page, of the web client each. |
| `WebClient` | The tab that is on one of those pages; instantiates the six. |
| `MCWebClient` | `WebClient` for TLC. |
| `WebClient_proofs` | Theorems about `WebClient` and its pages, with their proofs. |

Every next-state relation is a disjunction of one action per operation or step
of the code. Operators whose comment says "Changed" are wrong on purpose; they
show that a property notices the mistake and no specification uses them.

### LogConsumer

A *goroutine* is a partition (its `ConsumeClaim`) or a callback of a batch's
timer, and `pc` says where it is:

| Model | Code (`logsConsumer.go` unless named) |
|---|---|
| `Produce` | the gateway's `SendMessage`: topics are named after the log's service |
| `ConsumeClaim` | 50-82: receive; a message that cannot be used goes straight to `MarkMessage` |
| `AddDocument` | `ProcessLog` and `addDocument` (147-230): the part under the batch's mutex is one step, up to the call of `flushBatch` |
| `MarkMessage` | 77-87 |
| `TimerFires` | the `time.AfterFunc` callback (217-222); a callback that has started is not stopped by a reset |
| `FlushBatch` | `flushBatch` up to the request (232-264); needs the mutex |
| `BulkAnswered`, `BulkFails` | the two ends of the request (261-285): cleared after a success status, kept otherwise |
| `AutoCommit` | `config/kafka.go` 116-117, done by the client library |
| `EndSession`, `LeaveClaim` | cancellation of the session by a rebalance or a change of topics (`Start`, 378-396), and claims returning (89-91) |
| `NextSession`, `ConsumerStops`, `ConsumerStarts` | the loop of `StartConsumer` (`config/kafka.go` 161-179): another session, or none after an error of `Consume` or for want of topics, until `Start` (378-396) finds others |
| `Restart` | the process ends (`cmd/main.go` 108-133, or a crash) and starts again; nobody calls `FlushAll` or `Close` |

`addDocument` calls `flushBatch` with the batch's mutex locked, and `flushBatch`
locks it again. In the model the goroutine keeps `holder[s]` and stands at
`"flush"`, where `FlushBatch` needs the mutex to be free: it never is.

Abstracted: a document is its partition and offset, which is what its `_id` is
made of; the broadcast to the hub is in `SSEHub`; a bulk request stores any
subset of its documents when it fails, and when it is answered with a success
status some documents may have been rejected individually. The set `mishap`
remembers documents that were rejected or in memory when the process ended;
`failed` remembers that a batch's last flush failed.

### SSEHub

A *client* is an object of the hub. The hub finds it by the user's name, so all
tabs of a user share it. `hub` is the record of the three maps and of the
channels that were closed; the methods are functions from such a record to the
next, because they run under the hub's mutex. The goroutine that fans out a
project's logs is named by the client whose registration created it, and so are
its two channels.

| Model | Code (`LogsSSE.go` unless named) |
|---|---|
| `Reactivate`, `Create` | `RegisterLogsClient` (37-89), its two ends |
| `Unregistered` | `unregisterLogsClientUnsafe` (126-168) |
| `Unregister`, `Cleanup` | `UnregisterLogsClient` (91-123): the mark and the timer, and the goroutine ten seconds later |
| `GetChannel`, `GetNoChannel` | `GetLogClientChannel` (224-241), called by `StreamLogs` (`logs_handler.go` 241-247) |
| `Show`, `WriteFails`, `StreamEnds`, `Heartbeat` | the stream writer of `StreamLogs` (250-330) |
| `Broadcast` | `BroadcastLogs` (211-222) |
| `FanReceives`, `FanSends`, `FanStops` | `fanOutLogs` (170-209) |
| `Ages` | five seconds without activity (46) |

The heartbeat goroutine and the main loop write one response without a lock;
the model treats a write as atomic. `CleanupLogsStaleClients` is never called.

### IngestLedger

Every entry waits, is held, and is then stored for good or, if it is unusable,
skipped; an entry is lost only if a mishap hit it. `LogConsumer` implements it
under the mapping `FateOf`: in the index - stored; in a batch - held; behind the
committed offset and in neither - skipped or lost; otherwise waiting.

### AlertManager

One run of `processAlerts` (`alert-manager/src/functions/alert-cron.js`) is a
sequence of steps between awaits; `pc` says at which await the handler stands.
Between any two steps a minute may pass, readings and projects may change and
the process may die.

| Model | Code (`alert-cron.js` unless named) |
|---|---|
| `TimerFires` | the timer, a singleton: a start that comes up during a run waits |
| `PgConnect`, `ListProjects` | `pg.connect()`, whose client is not kept and hence never released, and the query, which needs a client too |
| `NextProject`, `ProcessAlert` | the loops over projects and rules; an error in the second skips the rule, in the first it ends the run |
| `SelectAlerts` | `groupAlertsByType`, `selectHighestPriorityAlerts`; `IsSelection` of `AlertRules` |
| `ReadCooldowns`, `AdmitAlert`, `ReturnAll` | `filterRecentAlertsWithRedis`: the MULTI of GETs, a turn of the loop with its SETEX, and its catch, which returns every alert |
| `PublishAlerts`, `PublishIndividually` | `publishAlertsToRedis`, and the fallback, whose `publishAsync` is not imported: each turn throws |
| `HostTimeout`, `HostCrash` | the host's limit on a run that waits for a client of an empty pool; any other end of the process |

Time is in minutes; `ttl` is what a cooldown key has left, `last` the age of the
timestamp that GET returned, which grows while the loop is slow. `since`,
`unfiltered` and `outcome` are histories. `Triggers` of `AlertRules` evaluates a
rule over one record per project of what Elasticsearch answers.

### LogBoySDK

Stream 1 is the call for logs, streams 2, 3, ... those for metrics, each opened
in place of the one before. `metrics` and `monitor` are the fields of
`GRPCmetricTransport` and of `LogBoy` (`logboy-express/src/`).

| Model | Code |
|---|---|
| `Log` | `log` and its levels in `logger.ts`, `log` of `GrpcLogTransport.ts` |
| `Tick` | the interval of `startMonitoring`: the first tick has nothing to compare with and sends no sample |
| `StopMonitoring`, `Close` | the methods of `logger.ts`, and `close` of the transports: `end()`, not `cancel()` |
| `Reconnect`, `handleReconnection` | `GrpcMetricTransport.ts` 105-117, the timer and what sets it |
| `StreamError` | the callback of a call that failed |
| `Receive`, `Acknowledge`, `Fails` | the gateway: a message taken off the call, the answer at its end, a failure |

The log transport's `handleReconnection`, which counts its attempts and stops
after five, cannot be reached: its stream is null only after `close()`, and
winston has taken the transport out of the logger by then.

### BackupCron

A month is one step of time, a file the set of the documents in it.

| Model | Code (`backup-cron.js`) |
|---|---|
| `TimerFires`, `ListProjects`, `NextProject` | the handler, its query, the loop with its retention and name checks |
| `FetchLogs`, `FetchMetrics` | the scroll over one index and the file that is written from it |
| `CreateDirectory`, `UploadLogs`, `UploadMetrics` | the data lake client |
| `Cleanup` | 276-349: the local files are removed; the deletion from Elasticsearch throws, because `logs` is out of scope, and is caught |
| `Arrives`, `Switch`, `NextMonth`, `Crash` | documents, projects, time and the host |

The code expects of its libraries what they do not do. The handler loops over
`res.length`, but `pg.query` gives an object with `.rows` (`alert-cron.js` reads it
so) and no length: the loop has no turn, and nothing is ever copied. Behind it, the
answers of version 9 of the Elasticsearch client have no `.body`, and the cron asks
for `metrics<name>-<date>` where the server writes `m-<name>-<date>`. Two constants
leave this open. With `Iterable` the query *may* have a result to loop over, and the
kinds in `Findable` *may* be found to exist; it may also turn out as it really does.
`BackupCron_archival` gives them the values that `package.json` implies, `FALSE` and
`{}`, and shows what the cron does: nothing. `BackupCron` and the theorems are about
the rest of the handler, for either value: however far a run gets, months are not
mixed and an archived log is not taken out again. That a run does archive is claimed
nowhere.

### LivePages

One tab on one of the three pages. A *setup* is a call of `setupSSEConnection`
and the EventSource it creates; `conn` holds the refs of the component, the
timers that will fire, and per setup its project, its state and whether its
closure is of the effect's latest run. An EventSource to which nothing refers
any more is not forgotten as long as it is open.

| Model | Code |
|---|---|
| `Navigate`, `Unmount` | the address changes (the component stays, its effects run anew), the page is left |
| `ProjectLoaded`, `ProjectFails` | the project's query is answered, or fails: `LiveWatch.jsx` 109 then sets up nothing more (`Barred`), until the address changes |
| `Hide`, `Show` | `handleVisibilityChange` |
| `TokenArrives`, `TokenFails`, `Opens`, `StreamFails`, `AlertStreamFails`, `RetryTimer` | `setupSSEConnection` after its await, `onopen`, `onerror`, the retry |
| `Broadcast`, `Deliver` | a message at the server, `onmessage` |
| `ProcessBatchedLogs` | `processBatchedLogs` of `LiveWatch.jsx` |
| `LoadAnswered`, `Filtered` | the request for stored logs or alerts, and the stored alerts without those that are shown |
| `MarkAlert`, `DeleteAlert` | `Alerts.jsx` |

An alert is known by its id, and one from the stream has none (`NoId`): the alert
manager's JSON is broadcast as a string (`AlertMonitor.go` 72) and marshalled once
more (`alert_handler.go` 284), so that `Alerts.jsx` 76 parses a string and spreads its
characters. The stored copy of such an alert has its id and is listed beside it, and a
second alert from the stream is dropped as a duplicate.

The flags `overlap` and `stalled` remember that one of two things happened that
the code does not guard against: an answer came for a setup that had been
overtaken, and a setup cleared the batch timer of a buffer that was not empty.
The invariants say what holds as long as neither did; both do happen. Monitoring's
page for a failed project query uses components it does not import, which ends the
page: in the model it is left (`Unmount`). The server broadcasts `MaxMessages` messages in
all, to a finite set of projects.

### WebClient and its pages

A tab is on one page; leaving it unmounts it, so that a behaviour is that of one
page. Each page has its own module with its own `Next`, and `WebClient`
instantiates the six. A request of RTK Query is sent again after a 403, once
(`ReAuthQuery`), and may be carried out although its answer is lost. The empty name
is never a valid one. `Sorted` of the charts puts each sample at its `Place`, the
number of samples that come at or before it, as a stable sort does.

| Module | Page | What is modelled |
|---|---|---|
| `CreateProjectPage` | `CreateProject.jsx` | the form, whose inputs are uncontrolled: they keep their text when the state is reset; the request; the server, which takes a name also when it fails later |
| `RuleForm` | `Alert.jsx` | cards, fields, destinations, the two dialogs that verify an address, the requests; a rule that is refused may have been stored (`StoredBy`: `AlertServices.go` 45-54 stores it before its destinations) |
| `SettingsPage` | `Settings.jsx` | editing, saving, the invalidation of the query and its pending answers |
| `LogsPage` | `Logs.jsx`, `ArchiveLogs.jsx` | filter, page links, the lazy query; the query for the project, whose failure ends the page (`Logs.jsx` 128-135) |
| `GraphPage` | `CpuUsageGraph.jsx`, `MemoryUsageGraph.jsx` | dates, hours, ranges, the two effects, the answers; a change of project, which the request carries and the effect does not depend on |
| `LiveMetricsPanel` | `LiveMetrics.jsx` over the list in `Monitoring.jsx` | the list of samples and the effect of the charts over time |

## Runs

| Run | Bounds | Shows |
|---|---|---|
| `LogConsumer_safety` | 2 partitions of one topic, 2 messages each, batches of 3, 2 callbacks, 1 failure | `TypeOK`, `CommittedIsKept`, `FlushIsScheduled`, `FullExactlyWhenStuck`; implements `IngestLedger` |
| `LogConsumer_liveness` | 1 partition, 3 messages, batches of 3, 2 callbacks, 2 failures | `BufferedIsStored`, `SessionsEnd` |
| `LogConsumer_fullbatch` | 1 partition, 2 messages, batches of 2, no failure | `FullBatchIsFlushed` is violated |
| `SSEHub_safety` | 3 tabs of 2 users, 2 projects, 3 clients over time, 2 timers per user, 1 log | `TypeOK`, `MapsAgree`, `OneFanOut`, `NoClientLeaks`, `NoOrphanStream` |
| `SSEHub_liveness` | 2 tabs of 1 user, 2 projects, 2 clients, 1 timer, 2 logs, channels of 1 | `ChannelIsFaithful`, `GoroutinesEnd` |
| `SSEHub_isolation` | the same tabs, 2 clients, 1 log | `TabShowsItsProject` is violated |
| `AlertManager` | 3 rules in 2 groups, 2 projects of which one has rules, 3 readings, a cooldown of 2 minutes, a pool of 2, 1 failure | `TypeOK`, `NothingForgotten`, `OneAlertPerGroup`, `NoWeakerSubstitute`, `CooldownRespected`, `StandingRuleReported` |
| `LogBoySDK` | 2 logs, 2 samples, 2 failures | `TypeOK`, `MetricsAlive`, `CleanCloseIsFinal`, `LogsDelivered`, `MetricsRecover` |
| `BackupCron` | 2 projects, 5 documents, 3 months, 2 failures; the libraries may do as expected or not | `TypeOK`, `OneMonthPerFile`, `LogsStayArchived` |
| `BackupCron_archival` | the same, no failures, the libraries of `package.json` | `QualifyingDataIsMoved` is violated |
| `LivePages` | 2 projects, 1 attempt, batches of 1, lists of 2, 2 moves, 1 failure, 2 messages | `TypeOK`, `NoLeakedSource`, `OneSetupAtATime`, `BufferDrains`, `OnceById`, `ConnectedIsTrue`, `Reconnects` |
| `WebClient` | each page with 2 to 5 requests, 2 or 3 values for a field | `TypeOK`, `OneRulePerFilling`, `PageSettles`, `SentFormIsSound` |

Why the bounds suffice for the cases that matter.

* Log consumer: two partitions contend for one batch; four documents fill a
  batch of three, and leave batches that a timer flushes with one or two
  documents; two callbacks let an old one meet a new one; one failure lets a
  rebalance, a restart, a failed and a partly rejected request each happen at
  every moment, and two (liveness run) let a failure follow another.
* Hub: two tabs of a user and three clients over time let a client be replaced
  twice while tabs, timers and old fan-outs still know the earlier ones; the
  second user keeps a project alive when the first one leaves; with channels of
  one and two logs, channels are full and logs dropped.
* Alert manager: two rules of one group, of which the weaker triggers alone or
  with the stronger, and a rule of another group in the same run; a cooldown of
  two minutes spans a run that is slow and two that are not; a pool of two is
  empty after two runs, so that the third hangs. The theorems hold for any.
* SDK: a reconnection may itself fail and be followed by another, before and
  after `close()`.
* Backup: one project is past its retention in every month and one becomes so;
  two logs of a month let one arrive after the search; two failures let an
  upload fail and the instance end, so that a run is started again, and three months
  let the next run find what was left.
* Live pages: two moves and a failure let a page be hidden or left, shown or
  moved to the other project, while a token, a stream or a retry is under way. A
  batch of one and lists of two fill up with two messages of a project. The one
  failure is that of the project query, of a token or of a stream; the theorems hold for
  any number.
* Web client: three or more requests let answers cross and a retry follow a loss;
  five pages of logs behind three links have a gap on either side; days of three
  hours, one hour ahead of UTC, have hours on the wrong side of midnight; bounds leave
  both dates, one or none of them in range, and a change of project brings others or none.

The runs but `AlertManager` say `CHECK_DEADLOCK FALSE`: those systems are driven
from outside and fall silent when the bounded environment has no more to offer.

Symmetry is used in the safety runs of the log consumer and of the hub only:
over the partitions of one topic, over the two tabs of one user and over the
projects. `SSEHub_safety` also takes `WithoutHistories` as its view: what was
shown and delivered (`shown`, `delivered`) guides no action and appears in none
of that run's properties, so states that differ only there are one state.

### Fairness

* `LogConsumer`: weak fairness of every goroutine's next step. For a mutex this
  says that a waiting goroutine is not passed over forever by ones that take and
  release it, which Go's mutex guarantees (starvation mode). Timers run out, a
  bulk request ends one way or the other, claims of a cancelled session return, and
  the client library commits. None of messages, rebalances, failures or restarts, and
  none of a next session: `StartConsumer` may return for good. `SessionsEnd` is about
  the claims, which is what the library waits for.
* `SSEHub`: the fan-outs, cleanup timers and main loops run. The two steps that
  unregister have strong fairness only because the bound on timers can disable
  them for a while, which the code never does.
* `AlertManager`: the event loop runs the handler on (`Step`), the schedule comes
  up (`Minute`), and the host enforces its time limit (`HostTimeout`). None of
  readings, switches, failures or crashes.
* `LogBoySDK`: timers and callbacks run, and the gateway receives and answers
  what is written to an open call. None of the application, nor of failures.
* `LivePages`: the browser's event loop runs on (`Step`): the project's query and the
  request for a token are answered and a stream opens, one way or the other, and timers
  fire. Failures and moves are bounded, so that each of these has its turn. None of the
  user or the server.

### What the violations show

* A batch that reaches `batchSize` is never flushed, although `addDocument` says
  "Flush if the batch is full": its goroutine deadlocks with itself. From then on
  the partition, the timers of the service and the end of the session wait too.
* A tab can be shown logs of a project it did not ask for, although README.md
  says that each project maintains separate log streams: the channel is looked
  up by the user's name after registering, and another tab of the user may have
  registered for another project in between.
* The backup moves nothing, although README.md says that qualifying data is moved to
  the data lake: the loop runs over the length of an object that has none. The run has
  no failures.

### What holds only with an exception

Where a property excludes a case, the model records it in a variable and the
case does happen; these are worth a reader's attention.

* `NoLeakedSource`, `OneSetupAtATime`, `OnceById`, `ConnectedIsTrue`, `Reconnects` exclude
  `overlap`: a token that arrives after the page has moved on opens a stream to
  which nothing refers.
* `OnceById` is about ids, and a live alert has none: the page lists an entry without the
  alert's fields, lists the stored copy beside it, and drops the next live alert.
* `BufferDrains` excludes `stalled`: a setup clears the timer of logs that wait.
* `Reconnects`, `BufferDrains` and `ConnectedIsTrue` exclude a LiveWatch whose project
  query has failed, and `Reconnects` one that has used up its attempts: neither
  connects again by itself.
* `CleanCloseIsFinal` is about a LogBoy that is closed with no reconnection pending: one
  that is pending opens a stream after the close. `LogsDelivered` is about runs in which
  nothing fails: the log transport goes on writing to a call that is over.
* `CooldownRespected` excludes alerts that passed because Redis failed: the catch
  returns those that are in their cooldown too.
* `PageSettles` excludes `jumped` (going to another archive file does not ask for its
  logs), `crossed` (two ranges of a graph asked for at once: the older answer may come
  last, and stays), a graph not asked again since its project changed (the old
  project's usage stays), and pages whose last request failed. It is about the charts
  over time: `latestMetrics` is not in it. Nor does it speak of the inputs of the
  settings page, which keep what was typed when a save fails.
* `SentFormIsSound` allows a project to be posted without the description its
  input still shows, and a rule with an e-mail method without an address beside a
  webhook: both are what the code does.

## Proofs

`LogConsumer_proofs` proves, for every set of partitions and services, every
batch size and every bound, assuming only `ConstantsAssumption`:

* `TypeCorrect`: `Spec => []TypeOK`
* `CommittedLogsAreKept`: `Spec => []CommittedIsKept`
* `FlushesAreScheduled`: `Spec => []FlushIsScheduled`
* `FullBatchesAreStuck`: `Spec => []FullExactlyWhenStuck`

None of the last three is inductive alone. The inductive invariant `IInv` adds
to them:

* `Positions`: committed <= marked <= fetched <= length of the partition; the
  message in hand is the only one fetched and not marked; no claim, nothing in
  hand. Without it a commit could overtake what was fetched.
* `Locking`: a mutex is held exactly by the callback that waits for its bulk
  request, which carries the whole buffer, or by the goroutine that filled the
  batch. Without it clearing the buffer could drop a document that was appended
  while the request was under way.
* `FetchedIsKept`: every fetched usable message is in its batch, stored, hit by
  a mishap, or still to be added. `CommittedIsKept` follows with `Positions`.

Each conjunct has a lemma that every step preserves it (`NextPositions`,
`NextLocking`, `NextFetched`, `NextBatches`), one case per action.

`LogConsumerLedger_proofs` proves the refinement, under the same assumption:

* `ConsumerImplementsLedger`: `Spec => ImplementsLedger`
* `NoLogIsLostSilently` and `StoredLogsStay`: the ledger's `NoSilentLoss` and
  `StoredForGood`, which follow from the ledger alone, hold of the consumer.

The step simulation needs `IInv` and two facts more: only usable messages get
into a batch (`OnlyUsable`: otherwise a mishap could turn a held entry into a
skipped one) and a request carries documents of its batch only (`Carried`:
otherwise a restart could store an entry that was not held). `AddDocument` is
`Accept` unless the document was already there; the ends of a bulk request and a
restart are `Leave`; a commit and a new session are `Settle`, where
`FetchedIsKept` says why an entry behind the commit that is neither stored nor
buffered was hit; all other steps stutter.

`SSEHub_proofs` proves, for every set of users, tabs, projects and clients, every
ownership of tabs, every capacity and every bound:

* `TypeCorrect`: `Spec => []TypeOK`
* `MapsStayConsistent`: `Spec => []MapsAgree`
* `FanOutsAreUnique`: `Spec => []OneFanOut`
* `ClientsDoNotLeak`: `Spec => []NoClientLeaks`
* `StreamsAreNotOrphaned`: `Spec => []NoOrphanStream`
* `ChannelsAreFaithful`: `Spec => []ChannelIsFaithful`

Its inductive invariant adds:

* `Filed`: `MapsAgree`, and besides that a client belongs to one user, a project
  channel to its project, and nothing was closed that was not created. Without
  it unregistering one user's client could close another one's channel, and a
  new client could be born closed.
* `InHand`: what a fan-out or a handler has in hand fits the place where it is.
* `FanOuts`: `OneFanOut`, and that only clients that were created have one.
* `Provenance`: each log that was broadcast is in one place of its own project only:
  in one project channel or in the hand of its fan-out, and then not delivered, or
  delivered, to no client twice. Without it the fan-out that an earlier registration left behind
  could send a log that the new one sends too.

`Filed` is stated of a record of maps rather than of the state, so that the
lemmas `UnregisteredIsFiled` and `RegisteredIsFiled` are about the methods
alone; the actions that call them (`Create`, `WriteFails`, `StreamEnds`,
`Cleanup`) cite them.

`AlertManager_proofs` proves, for every set of rules, readings and projects, every
cooldown, every pool of at least two clients and any number of failures:

* `TypeCorrect`, `NothingIsForgotten`, `AtMostOnePerGroup`, `NoSubstitution`: the
  four invariants of the run
* `CooldownsHold`: `Spec => CooldownRespected`, an action property

Its inductive invariant `Inv` adds `Batches` (what is in hand is a selection of
what triggered; only a failure leads to the fallback), `Timers` (since a checked
alert, `ttl` and `since` add up to the cooldown), `Reads` (a timestamp that was
read is no older than the last alert of its key, however slow the loop: without
it a key that expires in the middle of the loop could let an alert pass early)
and `SentProjects` (what was published is of projects that are done with: without
it a group could be published twice in a run). `CooldownsHold` follows from `Inv`
in every step, by `NextRespects`.

`LogBoySDK_proofs` proves `TypeCorrect`, `MetricsStayAlive` and `CleanCloseStays` for
any numbers of logs, samples and failures. `Inv` adds `FlagIsTimer` (the flag is set
exactly while one timer is pending: without it a failure could find the flag set
and nobody to reconnect), `OneCall`, `Reports` (a call that failed has its report
still to come) and `Quiet`.

`BackupCron_proofs` proves `TypeCorrect`, `FilesHoldOneMonth` and `ArchivedLogsStay` (an
action property) for all projects, retention periods, documents, months and failures,
and for either behaviour of the libraries. `Inv` adds `LocalSound` and `LakeSound` (a
file, also one that was left behind, holds documents of one month of its project),
`Ahead` (no run has written a file of this month yet) and `Covered`: what is in last
month's file is still to be found, and is in the local file if there is one. Without
it a run that is started again after a crash could replace that file by less.

`LivePages_proofs` proves, for every finite set of projects, every batch size, every
length of the lists and every bound on moves, failures and messages:

* `TypeCorrect`: `Spec => []TypeOK`
* `NoSourceLeaks`, `SetupsDoNotRace`, `ConnectedIsMeant`: `NoLeakedSource`,
  `OneSetupAtATime`, `ConnectedIsTrue`
* `BufferIsTimed`: `Spec => []BufferDrains`
* `OneEntryPerId`: `Spec => []OnceById`
* `SetupsSuffice`: some number of `Setup` is always free, so that the bound on the
  numbers of setups restricts nothing that the moves and failures allow, and `AwaitToken`
  never chooses from nothing. `Budget` carries it: a setup in use, a timer, a project
  that is loading and a tab that is hidden were each paid for by the mount, a move or a
  failure.

Its inductive invariant `IInv` adds:

* `Alone`, unless `overlap`: the only EventSource is that of the ref; while a token
  is awaited there is none; a timer runs only if there is neither; in LiveWatch
  `isConnectingRef` stands for the one setup of the latest run of the effect. The
  three properties about EventSources are parts of it, and none of them is inductive:
  without the clause about timers a retry could open a second stream beside the
  first. The operations on the connection (`Close`, `Release`, `Forgetting`,
  `AwaitToken`, ...) have a lemma each, and the actions are composed of them.
* `Batches`: the batch timer's ref of a LiveWatch that is open is never the handle
  of a dead timer, which would keep the next log from setting it.
* `Numbered` and `Fresh`, unless `overlap`: what the page has seen was broadcast,
  and an open stream is yet to deliver only what the page has not seen. Without it
  a message could come from a stream and be shown already. That samples and entries of
  alerts are added without repetition by `AddMetric`, `AddAlert` and `Filtered` are
  lemmas about sequences alone.
* `Shape`: which of the pages uses which of the variables.

`WebClient_proofs` proves, for all names, rules, settings, sources, limits, dates, time
zones and samples that satisfy the assumptions of `WebClient`:

* `TypeCorrect`: `Spec => []TypeOK`
* `FilledInOnce`: `Spec => []OneRulePerFilling`
* `Settles`: `Spec => []PageSettles`
* `FormsAreSound`: `Spec => SentFormIsSound`, an action property

The inductive invariant `IInv` is a conjunction of one invariant per page, each with
the lemma that a step of its page preserves it:

* `ProjectInv`: what is posted shows in the inputs, or was reset under them.
* `RuleInv`: addresses that are listed or selected are verified at the server, which
  forgets none; the one request under way is the last one, for the present filling,
  of which nothing is stored. Without it a request of an earlier filling could be
  answered after the form was emptied, and `OneRulePerFilling` would not follow.
* `SettingInv`: an answer to the query that was not invalidated holds the setting of
  the server.
* `LogsInv`: the list is the answer to the last trigger once that is answered, and the
  last trigger is for the filter that is shown. What `getPageNumbers` returns is a
  lemma about numbers (`PageLinks`): the window lies within the pages, holds the
  current one and is not too wide, for every number of pages and links.
* `GraphInv`: the last range requested is the one of the controls, for the project of
  then, and the last that is pending, unless answers may have crossed (`RequestFits`).
  `Fetched`, `Answered` and
  `Clamped` are lemmas about the operators.
* `LiveInv`: `ShowsNewest` needs that the places of `Sorted` are all different and
  hence all taken (`Places`, `PlaceOf`, by counting), so that nothing is lost by
  sorting, and that what `Newest` cuts off is not newer than the rest.

Only model-checked is all liveness, which is out of the prover's reach:
`BufferedIsStored`, `SessionsEnd`, `GoroutinesEnd`, `StandingRuleReported`,
`LogsDelivered`, `MetricsRecover`, `Reconnects`.

Every invariant and every action property of the passing runs is the subject of a
theorem.

## Not modelled

* *Live metric streams*, *metrics consumer*: copies of the log hub and the log
  consumer, with unbuffered channels, a removal that does not wait, and an index
  named after the day of the flush (a batch that is retried after midnight is
  stored twice). They would repeat `SSEHub` and `LogConsumer`.
* *Topic watcher*: the end and the start of a session are in `LogConsumer`, the
  contexts and error channels around them are not. Reading shows that the new
  topics are compared with themselves (`logsConsumer.go` 385), that the goroutine
  which restarts the consumer reads a context that may have been replaced (391),
  and that a goroutine is left behind per restart (`kafka.go` 184).
* *Projects and topics*: sequential calls to PostgreSQL and Kafka. A failure in
  between leaves a project without topics, and a retry finds the name taken
  (`CreateProjectPage` has the client's side of it); a logs topic that exists
  keeps the metrics topic from being created (`KafkaTopicManager.go` 41).
* *Alert monitor*: one loop, one message at a time. An alert whose numbers do not
  fit the string fields of `AlertMessage` is dropped (`AlertMonitor.go` 65), and
  the loop does not look at its context (52).
* *gRPC gateway* apart from its end of a call: what fails to be produced is
  written to the log and acknowledged all the same (`gRPC_log_service.go` 74).
* *Server main*: its shutdown is `Restart` of `LogConsumer`.
* *Alert rules service, codes*: as the web client meets them, in `RuleForm`;
  deleting rules and the queries over them are not modelled. `Alert.jsx` posts every
  rule for the project `project_1` (54), and `RuleForm` therefore lets the server
  refuse any.
* *Live metrics page*: `latestMetrics` takes the last of a list whose newest sample is
  the first, so that the cards show the oldest (`LiveMetrics.jsx` 47); no order of
  events is involved.
* *Queries over logs and metrics, authentication, mail*: no state of their own.
* *Pages of the web client that only show an answer* (dashboard, project list,
  statistics), the widgets under `components/ui`, and logging in.
