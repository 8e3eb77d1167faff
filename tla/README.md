# Verification of the Seoul citydata platform

TLA+ specifications of the data platform behind seoulnow: the producers that poll
the Seoul open API, the Flink jobs that carry the events through the bronze,
silver and gold tables, and the place dimension that is fed by change data
capture, the way back from gold to the web page, the visitors' events, and the
Airflow DAGs that look after the tables, and the scripts that set the catalog up and migrate it.
TLC checks the specifications on small instances; TLAPS proves the
theorems of `*_proofs.tla` for every value of the constants. `PROJECT.json` lists
the runs, the source lines of every definition, the hazards of the code and the
properties that watch them.

## 1. The system

    Seoul OpenAPI --> producers --> Kafka --> bronze_to_silver --> silver_to_gold --> API --> Edge API --> page
    Postgres places --> Debezium --> Kafka --> cdc_to_dim_place --> MERGE / dbt --> gold.dim_place
    page --> Edge API /api/v1/events --> http-receiver --> Kafka user.events.v1
    Airflow: dbt, compaction and expiry of snapshots, SLO report, backfill

| component | state | operations | hard behaviour | correct when |
|---|---|---|---|---|
| hotspot / subway producer (`src/src/producers`) | place in the loop, stop flag, queue of the Kafka client | fetch with three attempts, parse, produce, flush, sleep | delivery retries, full queue, flush that times out, signal at any time, kill | events of a key keep their order; one target cannot starve another; a signal ends the process |
| `bronze_to_silver.py` (Flink, two inserts in one job) | offsets, snapshot positions, open and committable rows, last checkpoint | read, join, checkpoint, commit, restart | checkpoint and commit are two steps; a branch fails alone; the process loses its checkpoints when it ends; one insert reads the table the other one writes | once per run, nothing skipped, every event reaches silver in the end |
| `silver_to_gold.py` (Flink, tumbling windows) | reader, watermark, open windows, results | read, drop late rows, close windows, commit | replayed rows that are behind the watermark, restore with windows open, watermark generator without state | one result per window, district and run; every row accounted for; passed windows are written |
| `cdc_to_dim_place.py`, Debezium, Postgres | change log, stored offset, topic, silver rows | insert, update, delete, publish, redeliver, register, append | redelivery, a slot that is dropped, equal `ts_ms`, NULL columns, replay from the earliest offset | silver rows say what the event says |
| `merge_dim_place.py` (Spark) | gold.dim_place | MERGE, twice in a row | old versions appended after new ones, deletes, SQL's unknown, rows that arrive between the two | never back to an older version, one version per row, deletes known, "not idempotent" only with a reason |
| `marts/dim_place.py`, `marts/chill_open_now.py` (dbt) | two tables | full rebuild, the second from the first and a static file | what the topic delivers twice, who wins when both sources know a place | convergence to what Postgres has |
| Iceberg maintenance (Spark) | data files, snapshots | rewrite, expire | appends during a rewrite, readers that hold an old plan, a streaming reader that lags | no row lost or doubled; only readers that are far behind fail |
| API (`src/src/api`) | one DuckDB connection per process, one catalog per thread | plan files, read, rank | first calls of several threads, files removed between plan and read | answers are of one snapshot and do not go back |
| Edge API and http-receiver | none / Kafka client queue | validate, stamp, forward, publish one by one | four-second timeout while the receiver goes on, partial batch, cookie only on success | what is acknowledged is published; order of a visitor's events |
| Airflow DAGs | task states, XCom | rewrite, expire, report, backfill | retries, trigger rules, a branch that is skipped | expire after both rewrites; an alert when the SLO is violated |
| SLO metrics | none | percentiles, thresholds | rounding, empty sample | agree with their reference definitions |
| page and its read handlers (`app/page.tsx`, `/hotspots`, `/chill-open-now`) | the last answers, the hour | load, fetch with a timeout, filter by opening hour | loaded again while answers are under way, answers out of the cache, hours that pass, midnight | never back to an older window; what is shown stays open |
| `bootstrap.py`, `migrate_gold_add_kafka_ts.py` | terms, warehouse, columns of gold | look and create, sync, drop and add a column | two at once, a crash or a lost answer between two requests | success means that it is done; run again it gets there |

They interact through Kafka topics (ordered per partition, bounded by retention)
and Iceberg tables (a sequence of atomic snapshots); inside a Flink job the two
inserts of `bronze_to_silver` share a checkpoint and the bronze table.

## 2. The modules

`PerRunDelivery` is the abstract specification of one streaming insert: rows are
taken from what the source offers, every commit adds rows that this *run* of the
process has not committed yet, and a new run may start over. It is all the code
can promise: the process keeps its checkpoints to itself (no checkpoint directory,
no savepoint) and the Kafka source starts at `earliest-offset`.

`BronzeToSilver` is the job. A bronze row is the place `<<partition, offset>>` of
its event; a silver row is the bronze snapshot it was read from and the bronze row.

| code | specification |
|---|---|
| `produce_json`; `retention.ms` of the topic | `Publish`, `Expire` |
| Kafka source and first insert | `ReadKafka` |
| streaming read of the bronze table, `enrich_tf`, second insert | `ReadBronze`, `Enriched` |
| `execution.checkpointing.interval`, for both inserts at once | `Checkpoint` |
| the Iceberg committers, after the checkpoint is complete | `CommitBronze`, `CommitSilver` |
| default restart strategy; the inserts are separate pipelines and fail alone | `FailBronzeBranch`, `FailSilverBranch`, with `ResumeOffsets` and `ResumeSnapshots` |
| `wait_for_shutdown` returns, SIGTERM, crash; systemd `Restart=always` | `StopProcess`, `StartProcess` |

Where a streaming read of an Iceberg table without a state begins (a scan of the
whole table, or its latest snapshot) depends on the version of the connector and
is not set by the code, so `FirstSnapshots` leaves both open.

`SilverToGold` is the second job, with the same life cycle. Its own state is the
reader (the rows of a snapshot come in file order), what the watermark generator
has seen, and the window operator. `ReadRow` drops a late row, `AdvanceWatermark`
emits the periodic watermark and closes every window it passes, `Results` is the
GROUP BY. A failure brings back the reader and the windows of the checkpoint; the
generator has no state and starts from nothing.

`PollingProducer` is the loop of both producers. `pc` is the place in `run()`;
`NextTarget` is the `continue`; `Produce` is `produce_json` with the BufferError
that nothing catches; `ParseRaises` stands for an answer of another shape than the
parser expects, which is parsed outside of the `try`. The client's thread delivers
in order (`Deliver`, idempotence on) or gives a message up (`MessageTimesOut`).

`DimPlace` goes from the Postgres table to the two consumers of
`silver.dim_place`. The columns of a place are grouped by how the SQL treats them
(compared or not, set or not, nullable or not). `SilverRow` is the COALESCE of the
job, `EnvelopeRow` the pure parser, `MergeRow` the three WHEN clauses, `Differs`
SQL's `<>` with NULL; where several rows share the greatest `valid_from`,
ROW_NUMBER may take any of them (`Newest`). `FirstMerge` and `SecondMerge` are the two
halves of `merge_dim_place.py`, `first` the signature it keeps in between.
`RegisterConnector` is `register.sh`, which drops the replication slot: what was not
published is gone (`lost`), and whether a snapshot (`ReadRow`) follows depends on the offset
that Kafka Connect kept. `DbtRun` rebuilds `dim_place` and from it `chill_open_now`:
`Combined` is its UNION ALL with the static file, `Foremost` its `ORDER BY place_id NULLS LAST`,
`Calm` the districts with a low score.

`IcebergTable` is one of the tables that the maintenance DAG looks after. The state
is what Iceberg has: snapshots as sets of files, how many of them are expired, and
the files that exist; beside it the place in the DAG, one request, one streaming
reader. `RewritePlan` and `RewriteCommit` are the two ends of `rewrite_data_files`
(`Replaced` is what its commit does to files appended in between); `ExpireBegin`
reads the clock, `ExpireCommit` forgets snapshots, `ExpireDelete` removes one file;
`TaskFails` ends a task at any point and uses up its retry. `Plan` and `ReadFile`
are `table_paths` and `read_parquet`; `Discover`, `Monitor` and `ReadSplit` the
streaming source. What Iceberg itself does is taken from how the code calls it.

`AppendOnlyTable` is what such a table promises to its readers: a set of rows that only
grows, of which a request gets all as they were when it began, each once, or fails; of
which a stream hands on each row that was there or came after it began at most once, or gets
stuck. No file, no snapshot, no rewrite. `ReadersSeeATable` is that `IcebergTable` implements it,
by mapping a request to the bag of rows of the snapshot it planned, and the splits of the stream to
the rows that are due (`Readers`).

`GoldTable` follows the timestamp columns of the gold table: `SubmitJob` is `CREATE TABLE
IF NOT EXISTS` with the INSERT that takes the columns by position, `Load` to
`AddColumn` the three cases of the migration with a commit or a refresh each, which another migration or
a failure may come between; `latency` is the query of `slo_metrics.py`, over
files that each have the columns they were written with. The table may be one of
the present version, of the one before (`Old`), or one that a first try of the migration
left (`Legacy`), as the docstring of the script lists them. That a schema commit is refused if the schema has
changed since it was loaded, and that a new column is the last, is how pyiceberg does it.

`Bootstrap` is `bootstrap.py`, one action per request; a run that fails can be started
again, and two can run at once.

`EdgeEvents` is the way of a visitor's events. `post[p]` is a request as browser and
Edge handler see it, `handling[p]` the same request in the receiver; they are two
records because they go on independently after `Timeout` or `FetchFails`. `Handle`
is `POST` up to its fetch with its early returns, `UpstreamAnswers` the head of the
receiver's answer, which clears the timer, `ReadBody` its body, for which the handler waits
without one; `Receive` is the pydantic check of a
whole batch, `Publish` one turn of the loop, `ReceiverStops` a container that is
stopped in the middle.

`DagRuns` is what the Airflow scheduler makes of the four DAGs: `Layers` is the order
of the tasks, `Starts` and `GivesUp` the trigger rules, `Succeeds` the return of a task
with its `Effect` (XCom, report file, message, the skipping branch), `Fails` a try that
fails before or after its effect, with the retry or the callback. `process_partition`
is mapped over the hours of `generate_hourly_partitions`, and skipped when there is none
(`NothingToMap`); `validate_params` compares two texts, whose order (`ordered`) need not be that of
the times they name. `SloMetrics` holds the pure
functions of `slo_metrics.py` that `CollectSloMetrics` calls. `Sorted` says what Python's
`sorted` returns by its places (the value of which fewer than i samples are below, and at least i
not above), because TLC's `SortSeq` is a Java operator of which nothing can be proved.

`Serving` goes from the gold table to the page. `req[t]` is what a thread of the API's
pool is at: `Plan` is `gold_table_paths` with its early return; `Cursor`, `Connect` and
`Configure` are the three steps of `duck_cursor` between which other threads run, for
`lru_cache` holds no lock while `duck_connection` does; `Query` is either SQL
(`row_number() = 1` may pick any row of the newest window); `Respond` is the return
through the handler, into the fetch that still waits for it. `fetch[k]` is one of the
two fetches of `load()`, `stored[k]` the last answer of an earlier load, which the
browser may still hold, `screen` what the page renders: `Show` when both fetches are through, `Select` at a
click, each with the hour that `getHours()` gives then; `Tick` leaves it as it is. `OpenHours` has the two definitions of "open" side by side: the
API's, with hours across midnight, and the page's, with its buffer.

`MC*` modules give the constants their values, and four of them say which
behaviours a run takes. (`MCEdgeEvents` and `MCServing` are described with the bounds of their runs.) In `MCDimPlace` a behaviour has the Spark job or the dbt run, since both
only read silver, and nothing of each other. `MCCatalog` is the sum of `IcebergTable`,
`GoldTable` and `Bootstrap`: they share no variable and every property is about one of them,
so a behaviour chooses one and leaves the others as they began. `TypeOK` is stated
of the modules whose proofs rest on it. Operators commented as mutants are
variants of one definition with a plausible bug; nothing uses them.

## 3. The runs

| run | states | shows |
|---|---|---|
| `b2s` | 39 thousand | within a run, no event or row is committed twice or skipped by either insert; both refine `PerRunDelivery`; an event of a mapped area ends up in silver |
| `b2s_exactly_once` | violation | a restart commits events to bronze again |
| `producer` | 29 thousand | order per key; every target is asked again and again unless an earlier one's parser keeps raising or the process keeps being killed; a signal ends the process |
| `s2g` | 177 thousand | one result per window, district and run; every row read is accounted for; a passed window is written once failures end |
| `dim` | 428 thousand | gold.dim_place never goes back, knows deletes, holds one version; the second MERGE differs from the first only if silver changed or has ties; dimension and mart converge to what Postgres has |
| `iceberg` | 317 thousand | rewrites and expiry lose and double no row; a request and a stream see an append-only table and fail only when they are `RetainLast` snapshots behind; bootstrap and migration keep what they report and get there when they are run again |
| `edge` | 133 thousand | an answer never says more than was published; of a batch the topic holds a beginning; every post is answered, or waits for the body of an answer whose head came; a visitor's id settles: when there is one and none other can come, later posts are published under it only |
| `dag_runs` | 36 thousand | an SLO that is violated is told, or a failed task is; the archive means a complete report; one message per failed task; the verdict fits the lags; no hour of a backfill is missing but, at times, the last; runs end |
| `serving` | 1.7 million | no query on a connection without its secret; a page never goes back to an older window; a place shown is open in the hour of the last render and in the next |
| `dim_envelope`, `dim_snapshot` | violation | two places where the SQL is not what a comment says |
| `gold_columns` | violation | on a migrated table the platform latency is always 0 |

Bounds and why they are enough. `b2s` has one partition with two events,
two runs and two failures: a checkpoint can lie between the events, a commit
between any two checkpoints, a failure of either branch or the end of the process
between any two of these, and a second run meets snapshots of the first. (That
partitions are counted one by one is left to the proofs, which hold for any number.)
One of the events is of
an area without a region. `s2g`: windows of two minutes and a delay of one keep
every relation of a row to a watermark (same window, late, just in time) with three
rows in up to two snapshots, which may repeat rows as a replay does. `producer`: a
cycle produces three events and the queue holds three, so it overflows in the
second cycle, also between the two events of one answer. `dim`: one place (the
MERGE treats places one by one; that the mart joins them by `biz_reg_no` shows in a static row with the same one),
two rows that differ in every column, one of them inactive and with NULLs,
three changes, and of the faults (a redelivered event, a second run of the job, a second
registration) one with the Spark job and two with dbt. Equal `ts_ms` are
for the Spark job only: with equal times the last version is not determined, as the
liveness properties say (`Settled`). `iceberg`: three
appends and `RetainLast = 2` give up to five snapshots, so that expiry has something
to take and a reader can fall behind by exactly as much as it may; two failures use
up the retry of a task. A behaviour has one reader at a time, since no reader
changes what another one sees. Two scripts and two migrations with two failures: each can come between any
two steps of the other, and both can fail once. `gold_columns` needs one migration, one window and
two ticks of the clock. `edge`: two posts, of every kind the handlers tell
apart, are enough for answers that overtake each other; three good ones, since two may
each bring a cookie and one has to come after them. `dag_runs`: any task may fail
any number of times; the samples have 20 to 22 lags with none to three of them above
the threshold, where 5% is one lag and the percentile falls on a sample, between two,
or just short of one, and zero to two lags; the ranges of a backfill begin and end on
the hour and off it, some are empty (one of them with its texts in order), and three hours meet the limit of two tasks at once. `serving`: two threads for the
two fetches of a page, which may be loaded again at any moment; two windows of one
district, written in any order. That is at noon, where no time passes, since the race and the order of windows have
nothing to do with the hour; other behaviours are in an evening of four hours around midnight (a page can be left alone for
longer than the buffer lasts), with one thread at a time, one row, and a place of every
kind (hours known and not, across midnight, until midnight, all day). Threads are
interchangeable, and the run uses that symmetry; it checks safety only.

The deadlock check is on in every run but that of `EdgeEvents`, where a visitor
may have made its last post. Restarts, retention and the poll loop keep
every system going; where the bounds are used up something is still enabled (a
commit, a checkpoint, a MERGE).

Fairness. The Kafka and Iceberg sources poll, checkpoints and watermarks are
periodic, committers run when a checkpoint is complete, systemd restarts a process
(`Restart=always`): weak fairness of each of these. Nothing is assumed of the
environment: no fairness on `Publish`, `Expire`, failures, signals, the API or the
brokers. The producer's loop is fair because every wait in it has a timeout
(`timeout=10.0`, `flush(timeout=10)`, `sleep(1)`); `Deliver` is not fair. In `dim` the connector, the job and the dbt run go on (weak fairness of
publication, commit and rebuild); nothing is assumed of Postgres, of `register.sh` or of the Spark job.
In `iceberg` an operator runs a script that failed once more, and systemd starts `silver_to_gold`;
a failure is bounded (`MaxLosses`, `MaxBroken`). A fetch
may fail for ever; of the Edge API only the handler and its timer are fair, neither
the receiver nor the network. The timer covers the head of an answer only (`route.ts:70` clears it
before the body is read at 79, and the read handlers do the same at `hotspots/route.ts:45` and
`chill-open-now/route.ts:51`), so a body that never comes is an exception of `EveryPostAnswered`. The Airflow scheduler and its tasks go on (none of them
has an `execution_timeout` and `sla` only records, so `RunsEnd` rests on dbt and Spark
coming back). How often the parser raises, a message times out or a producer is killed is not bounded.

## 4. What is proved

`BronzeToSilver_proofs` proves, for any partitions, events, region file and bounds:

- `TypeCorrect`: `Spec => []TypeOK`;
- `BronzeOnce`, `BronzeComplete`: `BronzeOncePerRun` and `BronzeNoGap`, from
  `BronzeInvariant`. Neither is inductive: a commit could repeat rows if the
  committable rows could hold some that are committed, or that lie above the
  checkpointed offset. `BronzeInv` says where the rows are: committed and
  committable at or below the checkpointed offset, open ones above it up to the
  offset read, none missing on either side, and no committable row committed in this
  run. A restore throws the open rows away together with the offset that counted
  them, which keeps both sides.
- `SilverOnce`, `SilverComplete`: the same of the silver insert, from
  `SilverInvariant`, with bronze snapshots in the place of offsets. Here a run
  without a checkpoint may start reading anywhere; `FreshRun` is what makes this
  harmless (nothing of this run is committed in either table before its first
  checkpoint). It needs the bronze table to be append only.
- `BronzeRefines`, `SilverRefines`: each insert implements `PerRunDelivery`, by
  mapping `CommitBronze` (`CommitSilver`) to `Deliver`, `StartProcess` to `NewRun`,
  `Publish` (`CommitBronze`) to `Offer` and all others to a stutter.

`SilverToGold_proofs` proves, for any rows, districts, window, delay and bounds:

- `GoldJobTypeCorrect`: `TypeOK`, and that the two readers (the running one and the one of
  the checkpoint) stand between the snapshot where the run began and the last of silver;
- `WindowOnce`: `WindowOncePerRun`. `Order` adds where results come from: those that wait for
  a checkpoint are of windows that the watermark passed after the last checkpoint, those that
  are ready or committed of windows passed before it, and no row is open in a window that
  is passed. So a window that closes again after a failure is one whose first result was lost;
- `RowsAccounted`: `RowsAccountedFor`. `AccInv` says the same of the checkpoint (a row it has
  read is open in it, in a result that is ready or committed, or was late), which is what
  `Restore` makes the state of the job, and that each watermark is that of a row already read.
  It needs that `results` and the open windows go back together.

`PollingProducer_proofs` proves `KeysInOrder` (`KeyOrder`) for any targets, batches and queue.
`TimesGoUp` says that along the topic, the queue, the batch and the API the times of a key only
go up; a delivery then writes the least of what is left. It needs that no two targets share a
key, which `ConstantsAssumption` says of the list of targets, and that the client keeps its order.

`Serving_proofs` proves, for any pool of threads, districts, places, hours and bounds:

- `ServingTypeCorrect`: `Spec => []TypeOK`;
- `ConnectionsConfigured`: `QueriesConfigured`. It is not inductive, because `Connect`
  gives a thread a fresh connection in the place of its old one: `ConInv` adds that
  a query runs on the thread's own connection or on the cached one, and that the cached
  one is not being opened.
- `PageForward`: `PageNeverGoesBack`, from `PageInv`: the window an earlier load got is
  in the table (with a district's window there is always a row at least as new); a
  thread that some fetch still waits for planned after that load, so its plan holds
  such a row; and the newest row of a plan is not older. It needs that the table only
  grows and that an answer reaches only the fetch that asked for it.
- `OpenInAnHour`, `ShownOpen`: a place that passes the page's filter at some hour is open for the API
  then and an hour later, by arithmetic over all hours; the page filters by the hour at which it
  rendered, hence `ShownStaysOpen`.

`DimPlace_proofs` proves, for any places, rows, static file and bounds:

- `DimTypeCorrect`: `Spec => []TypeOK`, with `Steps`, which says once for all what each
  step may do to topic, silver and gold;
- `NeverBack`: `GoldNeverGoesBack`. It rests on `GoldInSilver`: what gold has of a place
  is not newer than some row of silver, which only grows; a newest row is therefore at least
  as new as gold;
- `OneVersion`: `GoldIsOneVersion`, with `SilverFromTopic`: every row of silver is the
  `SilverRow` of an event of the topic. A row that the MERGE leaves alone but for `is_current`
  stays the version it was, one that it updates takes all columns but `biz_reg_no` of one row;
- `KnowsDeletes`: `GoldKnowsDeletes`, whatever clause of the MERGE a row takes;
- `MergeTwice`: `OnlyNewsFailTheMerge`. `Between` says of the time between the two MERGEs
  that the signature kept is that of gold, and that, unless silver has changed or has ties,
  merging the newest rows again changes nothing. It needs that an update makes `Changed`
  false and leaves the second clause nothing to do, NULLs included.

`Catalog_proofs` is about the three modules of what lies in the catalog. Of `IcebergTable` it proves
`RowsOnce` (`EveryRowOnce`) for any number of appends and failures.
`RowsInv` adds that the rows are numbered without a gap, so that an append is new, and that
the files a rewrite has planned to replace are still in the current snapshot, since nothing
but a rewrite removes a file from it and there is one at a time. `OldPlansFail` and
`LaggardsStick` (`OnlyOldPlansFail`, `OnlyLaggardsStick`) hold for any `RetainLast`. They rest on
`StorageInv`: the files of every retained snapshot are in the bucket and not among the doomed
ones, which are of rows the table has had (so an append never gets the name of one), and no
file is doomed while a rewrite runs, so its new file is there when it commits. A file that is
gone is then of an expired snapshot, which `RetainLast` others followed.

`TableSeen` (`ReadersSeeATable`) is that `IcebergTable` implements `AppendOnlyTable`, also for any `RetainLast`.
A commit maps to `AppendSome` (one that rewrites to an append of nothing), `Plan` to `Ask`, the file that
is read last to `Answer`, `Discover` to `Begin`, `Monitor` to `TakeUp` or `Stick`, `ReadSplit` to `HandOn` or
`Stick`, what the DAG does otherwise to a stutter. `ViewInv` is what it needs besides: `NewRows` (what an
append brings was in no snapshot before, and no file is empty, so a request has files to read
if and only if there are rows), `RequestRows` (what a request has is the bag of the rows of its snapshot
without those of the files to be read, each once) and `StreamRows` (the splits to be read
have, no two of them the same, the rows up to the last snapshot taken up, without those before the start and those
handed on). The last rests on a rewrite appending nothing: were its file a split, its rows would be due again.

Of `GoldTable` it proves `MigratedOnSuccess` (`SuccessMeansMigrated`) for any number of
migrations: `SchemaOK` lists the schemas a table can have or a migration can have loaded, and `NoWayBack` that nothing brings the legacy column back or takes
the new one away: what a migration has seen of the schema bounds what it can be now,
because a commit is refused unless the schema is still the one loaded.

Of `Bootstrap` it proves `BootstrapReady` (`SuccessMeansReady`) for any number of scripts:
a run past its project has accepted terms (`PastProject`), and no request makes a direct
profile anything else.

`EdgeEvents_proofs` proves, for any number of posts and any bodies:

- `AcceptedPublished`, `BatchesBegin`: `AcceptedIsPublished` and `BeginningOfBatch`, from `EdgeInv`.
  `ReceiverPhase` says where the receiver is: before its first event nothing of the post is in
  any partition, while it publishes exactly the events before `next` are, and all are when it
  answers; `PostPhase` that a number above 0 is the answer of such a receiver. The receiver's loop
  takes the least event that is left (`First`), so what follows an event in the topic follows it in
  the batch. It holds however often the Edge handler gave up before.
- `IdsSettle`: `IdSettles`. Once the condition holds it goes on to hold, and of every later post the
  header, the id it is stamped with and the partition it is published to are those of the cookie,
  step by step.

`DagRuns_proofs` proves, for any samples, hours, parameters and failures:

- `OneCallback`: `FailureToldOnce`. `Counted` says that there is one callback for a task that failed for
  good and none for another, `TriesLeft` that a task which is not over has tries left (so the step
  that uses up the last one is the one that calls back), and `GivenUp` that a task is given up
  only when some other failed, which has told so.
- `ViolationsTold`, `ArchivedComplete`: `NoSilentViolation` and `ArchiveMeansComplete`, from `SloInv`, which
  follows the report through the DAG: XCom is set exactly when `collect_slo_metrics` succeeded,
  the report is what XCom has once `generate_report` did, the branch skips the task it did not
  choose and nothing else is skipped, an alert was sent if `send_alert` succeeded and none before it
  started. `Ordered` is why this is known downstream: a task was started only when what it
  waits for had succeeded (of the archive: or was skipped).
- `HoursDone`: `HoursCovered`, by arithmetic over all minutes of start and end. That start is before
  end does not follow from `validate_params` but from `Mappable`: a task that has nothing to expand is never
  started, so a backfill that is verified had hours.
- `VerdictsRight`: `VerdictIsTail`, for lists of lags of any length. `Ith` is that there is an i-th smallest
  sample, `SortedIs` that `Sorted` ascends and counts like the samples do; the interpolation between
  two samples grows with the rank, rounding included (`AtRankGrows`), which gives the order of
  the percentiles; the two halves of the verdict count the samples above the rank of the 95th.

The library's induction theorems take an operator, which the provers cannot instantiate. Where an induction is
needed (`Ith`, `SortedIs`, `First`) it is one over a set of numbers (`LeastOf`, `Induct`): a non-empty set of
natural numbers has a least element, because `<` is well founded.

The only assumptions are those the modules name about their constants, which TLC
evaluates in the runs; `NoRowAssumption` keeps the absent row apart from rows.
Each invariant was checked by TLC before it was proved. The theorems about
`IcebergTable`, `GoldTable` and `Bootstrap` are about the specification of each; the run `iceberg` adds nothing to
the steps of any.

So every invariant, action property and refinement that the passing runs check is also proved. Only
model-checked are the liveness properties (`EventuallyInSilver`, `PassedWindowIsWritten`,
`NoTargetStarves`, `SignalEnds`, `DbtRunConverges`, `DbtMartConverges`, `BootstrapSettles`,
`MigrationSettles`, `EveryPostAnswered`, `RunsEnd`): fairness and ENABLED are out of the prover's
reach.

## 5. What the models say about the code

- The Flink jobs are at least once, not exactly-once, over restarts (`b2s_exactly_once`;
  `silver_to_gold` likewise writes a window again, perhaps with the rows of a part of
  it only, after a restart).
- `COALESCE(after.c, before.c)` keeps the old value of a nullable column that an
  update sets to NULL; the comment calls it the equivalent of
  `parse_debezium_envelope` (`dim_envelope`).
- The MERGE compares four columns with `<>`: a change of the category, or of an
  opening hour to or from NULL, leaves gold as it was; `biz_reg_no` is never updated
  (`dim_snapshot`). Its target is gold only: the silver rows that
  `cdc_to_dim_place.py:79-81` expects it to close stay current.
- The INSERT of `silver_to_gold` names no columns. `CREATE TABLE IF NOT EXISTS` has
  `gold_arrival_ts` last, the migration appends `last_silver_arrival_ts` after it: on a table that was
  migrated the arrival in silver goes into `gold_arrival_ts` and the time of
  writing into `last_silver_arrival_ts`. The platform latency is then negative,
  `slo_metrics.py:220` makes it 0, and its SLO cannot be violated (`gold_columns`); the
  freshness is measured up to silver and not up to gold. The report of
  `docs/portfolio/phase1a_v1.md:206` has 0 s in all percentiles over 1175 rows.
- Two runs of `bootstrap.py` at once: both may see no warehouse, and the second to create it fails
  although the warehouse is there. Run again it succeeds (`BootstrapSettles`), and success means
  that the profile is synced, also of a warehouse that existed.
- While the migration has dropped the legacy column and not yet added the new one, `silver_to_gold`
  cannot be submitted (its INSERT has one expression too many); the case "neither" of the script
  is what makes a second run go on from there (`MigrationSettles`).
- `chill_open_now` prefers a place of the dimension to one of the static file with the same
  `biz_reg_no` (its docstring, lines 19 to 21), but the dimension has active places only: a place
  that was deleted or closed in Postgres comes back through an active row of the static file.
  `DbtMartConverges` speaks of active places. Rows without a `biz_reg_no` are one group, of which one row is kept.
- `register.sh` loses the changes that were not published when it drops the slot: an update
  until the next change of the place or the snapshot, a delete for good
  (the properties except these places as `lost`).
- `merge_dim_place.py` says "not idempotent" when `cdc_to_dim_place` has committed
  between its two MERGEs, or when two versions of a place carry the same time (`OnlyNewsFailTheMerge`).
- A failure of `silver_to_gold` between a checkpoint and the next watermark can hold
  a passed window back until a new row arrives, since the generator of the watermark
  forgets how far the rows had come. This is why `PassedWindowIsWritten` speaks of
  windows that are passed when the last failure is behind.
- A visitor's first events may be published under an anon_id that the visitor is
  never given: only answers with status 200 carry the cookie, while `cookie-anon.ts:4-5`
  has later visits reuse the id of the first. Two
  first posts at once get an id each as well, and the later answer wins; from then on the id is one
  (`IdSettles`). The answer
  "accepted 0" does not mean that nothing was published.
- A receiver, or a tunnel before it, that sends the head of an answer and then no body keeps the Edge
  handler waiting: the four seconds are over once the head is there (`EveryPostAnswered` excepts it).
- `hotspot_producer.py:134` parses outside of the `try`: an area whose answer makes the parser raise ends the
  process, and the next one begins with the first area again. As long as it does, the areas after it
  are not asked; nor are they if the process is killed in every cycle (`NoTargetStarves` names both).
- A 95th percentile on the threshold is reported as kept (`slo_metrics.py:139` has `>`), while the SLO is
  written as `P95 < 45m` and `P95 < 7m` (`slo_metrics.py:5` and `8`, `slo_daily_report.py:4`, the docstring at
  `test_slo_metrics.py:59`, the repository's `README.md:41-42`). `VerdictIsTail` takes the code's reading.
- The page loads once and renders when its answers come or a district is selected. Left alone it goes on showing
  places that have closed, with data as old as the page, where `layout.tsx:8` promises an
  update every five minutes. `ShownStaysOpen` is what remains: the hour of the last render
  and the one after.
- `expire_snapshots.py` keeps five snapshots whatever their age (the description of the
  DAG, `iceberg_maintenance.py:16`, has seven days). A silver table gets a snapshot
  about every checkpoint, so a request has a few minutes to read its files, and
  `silver_to_gold` as long to take up a snapshot (`OnlyOldPlansFail`,
  `OnlyLaggardsStick`). If it is too slow the Flink job fails while its process, which
  waits for a signal only (`lifecycle.py:27-56`), stays up.
- A maintenance task that fails leaves files behind that nothing refers to (written
  and not committed, or expired and not deleted); `remove_orphan_files` is a
  placeholder.
- No lags in 24 hours are "not violated": `slo_daily_report` says nothing when the
  pipeline stands still. A backfill whose start is not on the hour may miss the hour
  its end lies in, since it steps by 60 minutes from the start (`HoursCovered` says when).
  `validate_params` compares the texts of start and end: with two forms of ISO 8601 (a blank or a `T` before the
  hour) it lets an empty range through, and the run ends with its tasks skipped and nobody told.
  A `send_alert` that is retried may alert twice.
- The page's filter has no case for hours across midnight: of the places that the API
  says are open, a bar open from 18 to 4 is never shown, whatever the hour. What is
  shown is right (`ShownStaysOpen`); what could be shown is not all of it.
- `list_areas` ranks an area's rows by `silver_arrival_ts`, the time a row got to silver. While
  a restarted `bronze_to_silver` replays the topic, its answer goes back to old
  observations and forward again; `list_hotspots` and `chill_open` rank by window and
  do not (`PageNeverGoesBack`).
- `PageNeverGoesBack` speaks of each of the two fetches by itself: with the handlers'
  60 seconds of cache the map and the places of one page may be of different windows.
- `duck_connection` is not a singleton for the first requests: several threads may each
  open one, and each goes on with its own; the cache keeps the first that was configured,
  and the others are harmless (`QueriesConfigured`).
- In both producers `except httpx.HTTPStatusError` is never reached: tenacity raises
  its own RetryError after the third attempt, which the second clause catches.
  The effect (skip the target) is the same, and the model has one `FetchFails`.

## 6. Abstractions

Rows are identities, not columns, except where SQL looks at them. Flink's barrier
alignment is abstracted to one atomic checkpoint of both inserts; parallelism is 1
in the code. A commit to Iceberg is atomic and its retries are inside it. The
partial loss of a Kafka log other than by retention and the loss of an Iceberg table
are not modelled.

There is one clock: the API's `datetime.now()` (`chill_open.py:115`) and the page's `getHours()` are taken to be
of the same time zone, which neither sets. The shapes of the districts render the page too when they arrive, but
nothing can be selected before, and only the places of a selected district are shown.

In `Serving` an answer holds the newest window per district and, for the places, the hour at which they were found open; a missing `CHILL_API_BASE` (an answer
503 without a request) is left out, the browser's cache is the only one, and what
maintenance does to a plan is `IcebergTable`, here a part of `Raises`.

Not modelled: the ranking of `list_areas` (what it shows during a replay is said above, and a
property of it would only restate the ORDER BY); `fact_hotspot_congestion_hourly.sql` and
`stg_hotspot_silver.py`, each one query over one table without a state; `duckdb_check.py` and the
other scripts that print; the map and the widgets of the page. `deploy.sh` only restarts what it
deploys and `create_topics.sh` only creates topics, which are `StopProcess`, `StartProcess`, `Restart` and `Expire` here.

## 7. Plan

Done, in the order of importance: 1 `BronzeToSilver` with `PerRunDelivery` and its
proofs; 2 `PollingProducer`; 3 `SilverToGold`; 4 `DimPlace`; 5 `IcebergTable`;
6 `EdgeEvents`; 7 `DagRuns` with `SloMetrics`; 8 `Serving` with `OpenHours` and their
proofs; 9 `AppendOnlyTable`, which `IcebergTable` implements; 10 `GoldTable` and `Bootstrap`;
11 registration, the two MERGEs and the mart in `DimPlace`; the proofs of 2 to 7, 9 and 10.

Proofs to come: the safety half of what `DimPlace` promises of the dbt run, whose convergence is
model-checked: a rebuild has of every place the last version in the topic.
