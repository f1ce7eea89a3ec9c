# Verification of the GTFS-Realtime Stream Engine

TLA+ models of the engine's stateful parts and of its metrics, checked by TLC
on small instances, and theorems about them, proved with TLAPS for every value
of the constants. `PROJECT.json` maps each definition to the lines it models,
lists the hazards of the code with the properties that cover them, and gives
for each property a plausible bug that would break it.

## The system

| Component | State it keeps | Operations | Talks to |
|---|---|---|---|
| Ingestion service (`ingestion-service/src/ingestion`) | consecutive failures, timer, Kafka producer | poll, retry a request, validate, publish, back off, ping the health check | the agency's feed; Kafka topic `raw.vehicle-positions` |
| Analytics engine loop (`consumer.py`, `main.py`, `db/writer.py`) | window buffer, two dedup trackers, backoff, committed offset | poll, flush window, compute, persist, commit, back off | Kafka; MongoDB; a callback to the hourly accumulator and the alerter |
| GTFS-static refresh (`gtfs_static/refresh.py`) | bundle directories on disk, their validators | download, verify, swap | the agency's server; called by the loop |
| GTFS-static lookups and matching (`loader.py`, `metrics/schedule_deviation.py`) | lookups of one service date, in memory | load, reload, match, compute deviations, gate, enrich | the loop calls it on every iteration and every window |
| Hourly statistics (`db/pg_writer.py`, `main.py`) | accumulators, pending rows, retry timer, connection | accumulate, flush at the hour, retry, reconnect, flush at shutdown | PostgreSQL |
| Data-quality alerting (`alerting.py`) | samples, hour in progress, alert states | observe a window, close an hour, ping, report the status | Healthchecks.io; MongoDB |
| Bunching (`metrics/bunching.py`, tracker in `consumer.py`) | tracked events | find pairs, detect runs, reconcile with known events, upsert | MongoDB through the writer |
| Archive consumer (`archive-consumer/`, Go) | batch, open hour file, buffer, committed offset | fetch, write, rotate, gzip, fsync, commit | Kafka (a group of its own); the archive directory |
| Archive compactor (`archive-compactor/`) | nothing in memory between passes; the directory tree | fold a day to Parquet, verify, delete raw files | the archive directory, beside the Go writer |
| Notebooks (`analytics-engine/notebooks`) | none | the prototypes of the metrics and the gates they were validated behind | a capture of the topic; the engine's functions |
| REST API, frontend | caches in the browser | queries, drawing | MongoDB, PostgreSQL |

Hard behaviour, by place: the loop decides one commit from two writes that fail
independently, marks results as seen before they are stored, and drops windows
during its backoff; windows overlap, so an incident of bunching is seen several
times and in parts; the hour boundary, the retry timer, the shutdown and the
wall clock all act on one buffer of rows; the alerts are decided from samples
and counts that may be missing, in memory that a restart clears; the archive
consumer writes through a buffer that spills in mid-line and may change files
in mid-batch; two compactor passes and the Go writer change one tree without
locks; the bundle swap is four file operations with a recovery step for kills
between them; scheduled times are offsets from "noon minus twelve hours" of a
service day that has to be guessed, on days that may be 23 or 25 hours long.

## Modules

Every component module has one action per operation; modules that compose or
analyse others extend them. Operators whose name has a suffix after an
underscore (`Start_OffByOne`) are deliberate errors that show what a property
depends on; the specifications do not use them.

### The stream

* `LogConsumer` -- the abstract promise both Kafka consumers make: messages are
  settled, and a prefix of the log is acknowledged only when all of it is
  settled. Both detailed modules implement it under a refinement mapping.
* `AnalyticsConsumer` -- `run()`, `_process_window()`, `PingWindowBuffer`,
  `_DeviationResultTracker`, `persist_window()`, commit and backoff. A message
  is malformed (skipped), poison (`flush()` raises on it) or a ping with a
  natural key and an event time. Event time and wall-clock time are separate.
  `pc` follows one iteration of the loop: `poll`, `check`, `write_bunching`,
  `write_deviations`, then `commit` or `enter_backoff`. History variables
  record why an offset needs no more work (`handled`, `dropped`, `missed`) and
  which keys were computed without being stored (`lostKeys`).
* `FirstProcess` extends it by two variables: whether the first process is still
  the one that runs, which is as long as a tracker in memory can keep a promise,
  and the keys that a window computed and the tracker never heard of.
* `BunchingDetection` -- the pure part of `metrics/bunching.py`: usable pings,
  the first ping of each vehicle in a bucket, pairs, close and separated
  buckets, runs, events. Positions are points of a line, buckets numbers.
* `BunchingTracker` extends it -- the overlap of the windows, `reconcile()` and
  its purge, the upserts by natural key, commit, failed writes, windows
  discarded in backoff, restarts.
* `BunchingAnalysis` extends that -- notebook 04 in its exploratory and final
  versions: the self-join, the two ways to count events (per `pair_id`, over all
  routes and directions, in the exploratory one), the sweep, the union-find
  clusters.

### The schedule

* `GtfsRefresh` -- `download_and_extract_gtfs`, `_swap_into_place`, `load`,
  `reload_if_changed` and their two callers. A directory is the release it
  holds and the one its `.etag` names; `rmtree` is not atomic.
* `ScheduleTime` -- the arithmetic: days, midnights and noons around a change of
  the clocks, `resolve_scheduled_datetime()`, and the prototype's version.
* `StaticSchedule` -- what `load()` makes of a bundle and a service date: the
  calendar with its exceptions, the filtered trips and stop times, each lookup,
  the version; and `load()` itself as a list of statements (`LoadBody`) that
  check, build a local or assign an attribute, with those that raise.
* `ScheduleMatching` extends both -- vehicles run the schedule with delays, the
  publisher replaces the bundle, the loop reloads it one statement of `load()` at
  a time, during which midnight may pass, and a window's pings are counted,
  matched, gated and enriched.
* `MatchingAnalysis` extends that -- notebooks 02 and 03: stop matching and its
  fallback, midnight crossers, the prototype's deviations, departures, the
  audit of the directions.

### What happens to a window's result

* `WallClock` -- a clock that advances, and may be stepped back.
* `HourlyStats` -- the accumulator, `maybe_flush`, the pending rows, the upsert
  with its failures (an unacknowledged commit among them), the retry timer, the
  reconnection, the `finally` block of `main()`. A row carries the items it was
  computed from, so that "lost" and "counted twice" can be said; averages and
  percentiles are functions of the items.
* `DataQualityAlerter` -- both rules, the order of the judgements, the ping.
* `WindowCallback` composes the three: `on_window_result()` inside one process
  after another, with signals, kills and an outage of PostgreSQL between any
  two of its steps.

### Ingestion

* `Ingestion` -- the poller with its two levels of retry, the backoff, the
  health check, and what a rejected `send()` leaves in the topic.
* `FeedAnalysis` -- notebook 01 as operators on a capture: cadence, validity,
  deduplication, gaps, dwell, quantiles, incident windows in both versions.
* `FeedCapture` composes the two: the notebook's analysis of the topic the
  poller fills, compared with what the vehicles, the server and the broker did.

### The archive

* `ArchiveConsumer` -- `Run`, `flushBatch`, `ArchiveWriter`, `gzipFile`. A line
  is two tokens, so a file can end in the middle of one; the `bufio` buffer has
  a capacity and hands over whole buffers when it overflows.
* `ArchiveCompactor` -- `run_once` with `eligible_days`, `compact_day`,
  `delete_raw_day`, one step per file operation, for any number of passes at
  once; the Go writer's rotation appears as the steps that open, gzip and
  remove hourly files.

`MC*` modules and the `.cfg` files give the constants values; `*Proofs` modules
hold the theorems.

## Runs

| Run | Question | Bounds |
|---|---|---|
| `consumer_safety` | Offsets against what was attempted, stored, dropped; tracker against store; first arrival kept within a process; refinement of `LogConsumer` | 3 messages of every kind, one key and pings without a key, event times 0..3, a retention of 2 and an overlap of 1, one kill, one failed write, all outcomes of the computation |
| `consumer_progress` | Lag drains; backoff ends | 3 pings, two failed windows, delays with jitter, exits of quiet windows |
| `consumer_at_least_once` | `guarantees.md` section 1 (**violated**) | 2 pings, one failed window |
| `bunching` | Incidents found, kept apart, stored with what was seen; agreement with notebook 04 | 4 vehicles (two of them report), 17 ticks, windows of 7, an overlap of 6, buckets of 3, one failed write, one restart |
| `schedule` | Deviations true, on time reported, lookups consistent; agreement with notebooks 02 and 03 | 8 days with the clocks changed on day 3 by an hour either way or not at all, 3 bundles of which one does not load, failing at a statement that depends on the date, delays up to 11 hours |
| `refresh` | One interruption never loses the bundle; a good release is served in the end | 3 releases of any quality and version, 2 kills, 1 refused rename |
| `window_stats` | Items neither lost nor counted twice; the buffer drains | 2 windows, 2 processes, 1 outage, clock to 3 with one step back, hours of 2 ticks |
| `window_alerts` | Order of judgements; what a green check means | 3 windows, good and bad, failed, low and normal counts, lost pings, one restart, one step back |
| `alert_sustained` | The rule of `alerting.py:9-11` (**violated**) | 5 windows, a rule of 3 ticks |
| `ingestion` | What green means; the backoff ends; the notebook's gates | 4 vehicles in 2 partitions, 8 ticks, 2 faults, 3 ticks of stalled requests, 3 of both together |
| `archive_safety` | Intact lines, fsync, nothing erased, draining, refinement of `LogConsumer` | batches of 2 lines, a buffer of 3 tokens, 2 hours, 3 messages, one kill, one short write, one step back |
| `compactor` | Nothing lost, only whole days published, both deletion gates, eventual folding | 2 passes, hours with 0, 1, 2 lines and a corrupt one, 5 days, one kill |

Why these are enough: an error of the loop needs at most a ping that is lost, one
that makes the next window succeed, and one whose timestamp moves a cutoff. With
a retention of 2 in event times 0..3, an entry of the tracker can be purged while
its vehicle dwells, or by another vehicle's ping; the gate ends at 2, so a key
may also arrive too late for it. Seventeen ticks are three windows with either
phase of the first, so an incident can be cut twice, at the edge of a bucket and
inside it; the overlap covers two buckets of three ticks and not three, and the
second vehicle may be silent, near, far or at a terminal, early and late in each
of the first four buckets; in the last bucket with reports both vehicles may be
on their way back, so that one pair is seen in two directions. The days of
`schedule` hold the night before, the day of and the day after a change, a trip
at 25:30 and one at 01:30, and delays on both sides of the gate and of half a
day. Two windows and a step back make the statistics' three hard cases (two rows
for one hour, a flush that is repeated, a shutdown with rows on their way). A
batch of the archive can both spill and span two hours. The compactor's grace
period and minimum age fit in its five days, with days to spare. A bundle swap
needs an old and a new release; the third makes the feed move on between HEAD and
GET of a second swap. Both passing runs of the consumer use `FirstProcess`;
`consumer_safety` is the one with kills, poison messages and failing
computations, and takes every action. The runs with `CHECK_DEADLOCK FALSE` end at
a bound (their last tick, or all messages archived), where the system would go
on.

### What the runs show

* The consumer's offset is always explained: below it, every accepted message was
  in an attempted window, was discarded in backoff, or predates the group
  (`NoSilentSkip`). It is *not* at-least-once: the counterexample of
  `consumer_at_least_once` is a failed window followed by a successful one.
  `CommittedStored` lists exactly the exceptions.
* A poison message stops the consumer until it ages out of the topic
  (`PoisonBlocks`).
* The Kafka client reports `_NO_OFFSET` to a synchronous commit that has nothing
  newer than the last one, and nothing catches it: a window of carried-forward
  rows alone ends the process. `QuietCommitRaises` chooses between this and a
  client that ignores it; only the violation run sets it to FALSE.
* While one process runs, the arrival that is stored is the first that any window
  has processed (`StoredIsFirstArrival`), except of a key that had a ping too
  early for the gate, whose computation failed before `filter_new()`, or whose
  dwell outlasts the retention: its entry is purged (`consumer.py:268`), and a
  later ping of the same dwell is then taken for an arrival and replaces the
  first one. The 600 seconds count on the newest ping of any vehicle.
* Bunching: two close observations that belong together are in one document once
  their windows are written, unless a write failed or the process restarted
  (`NoIncidentMissed`), no document spans a bucket in which the pair was seen
  apart (`NothingMergedAcross`), and its minimum is the least one seen
  (`MinimumKept`). Each holds with a limit, and the model with its limit removed
  violates it:
  - the overlap is two poll intervals, which `consumer.py:58-66` calls the
    minimum that is safe. It covers two neighbouring buckets. Two observations
    with a skipped bucket between them, which `bunching.py:235-254` joins into
    one run, need three buckets less a tick: cut in the first of them, they are
    never seen together. `OneIncident` therefore speaks of observations that the
    overlap covers;
  - a bucket that the overlap cuts in two is judged twice, the second time
    without the vehicles' first pings, and the two judgements may differ. What
    the second one finds close, the tracker, which knows no separations, joins to
    the event before it. A nearer observation it brings is dropped when the event
    ends in that bucket, because only a later end counts as an update
    (`consumer.py:207`), against `guarantees.md:38`. Both properties except
    buckets on which the windows disagree;
  - vehicles whose timestamps lag one another shorten the overlap, which counts
    from the newest ping of all. The run's vehicles report in step
    (`PingsInStep`).
  The start time is part of the natural key (`writer.py:123-129`), and the
  tracker may move it to an earlier one (`consumer.py:213`): then a second
  document of the same incident is stored beside the first, which
  `guarantees.md:38` excludes. It needs an event that starts before the tracked
  one and ends after it; no trace of the run has one, and no property is stated
  about it.
* Schedule: a deviation that passes the gate is the vehicle's real delay on its
  own service day, over changes of the clocks and after midnight, for every feed
  whose trips keep their times across bundles (`PlausibleFeed`). The services
  kept for a date are those of the day before, the day and the day after; an
  exception that removes a service on one of them removes it from all three
  (`loader.py:331-339`), so `ServicesOfTodayKnown`, which is what `loader.py:267`
  says, does not hold around such an exception, and `OnTimeIsReported` has to
  except it. The prototype's arithmetic is wrong only in the night the clocks
  change, the engine's is not.
* Schedule, loads: whatever `load()` raises at, and if midnight passes meanwhile,
  what is served between loads was built from one bundle for one date
  (`LookupsOfOneBundle`): every statement that can raise comes before the first
  assignment. A body that assigns as it builds (`LoadBody_InPlace`) leaves a
  mixture behind.
* Statistics: `NoItemLost` names every way in which a counted item can disappear:
  - the process is killed;
  - it is interrupted before the rows it handed over reach the buffer, or before
    its first `maybe_flush()`;
  - the shutdown gives up on the buffer, because PostgreSQL is down, or, with
    PostgreSQL up, because a clock stepped back has poisoned the buffer;
  - another process wrote the row of the same route and hour, or the same process
    wrote it again after the clock was stepped back: a row replaces, it does not
    add.
  While the clock has not been stepped back, a running process has lost nothing
  it counted itself (`OwnItemsKept`). A clock stepped back can put two rows of
  one (route, hour) into the buffer, and from then on every upsert fails
  (`PoisonNeedsClockBack`, `PendingDrains`).
* Alerts: hours are judged in order, once, and when they are over; the check
  turns green only for data that was judged good, or because a restart forgot the
  alert. The ratio rule asks for a sample on the very edge of its 30 minutes, so
  with real timestamps it practically never fires (`alert_sustained`).
* Ingestion: green means that the whole feed of a cycle is in the topic; an empty
  feed counts as whole, even with Kafka down. Once server and broker are well, a
  cycle has succeeded after the longest wait and whatever time its requests were
  left waiting, which nothing limits: they have no timeout.
* Notebook 01: duplicates, gaps and incidents mean what it says, with limits that
  the models make visible. While nothing fails, the cadence gate stops at a whole
  minute exactly if the waiting for answers cost it more polls than are
  tolerated, and passes a minute that lost all of them (`CadenceGateIsFair`). The
  only required column a row may lack is `current_status`, which
  `validator.ts:90` publishes as null (`GapsAddUp`): the notebook's count of
  missing values need not be zero for it. Deduplication keeps the latest of
  several copies, which overstates latency; `>=` at the quantile flags ordinary
  gaps when most gaps are equal. An incident needs several adjacent minutes in
  which gaps *begin*, so one outage shared by the fleet, whose gaps all begin in
  one minute, is never reported (the notebook concludes from an empty list that
  there was none). Taking an incident's gaps out need not lower the
  silent-vehicle threshold (a quantile may rise when short gaps leave too); what
  holds is that at most one in a hundred, rounded up, of the gaps that are left
  outlasts it.
* Notebook 04: the exploratory count ranks the rows of a `pair_id`, the two
  vehicles, and so joins what they did on two routes or in two directions; the
  engine, and with it the final notebook, counts each route and direction. On a
  table with one row per vehicles and bucket, which the engine's pairs are, the
  first is the number of runs of the two vehicles, and both agree if no two
  vehicles were together on two routes or in two directions. Where they were, the
  run has traces on which the counts differ: two vehicles that turn round
  together make one event of the first count. The exploratory join may have more
  rows per bucket, and its count may then differ as well.
* The archive keeps an intact line of every committed message except in three
  cases that `CommittedIntact` names: a clock stepped back over a gzipped hour, a
  line appended to the torn end a short write left, and the same after a kill
  before the group's first commit at `latest` (the redelivery that would
  otherwise repeat the torn line does not happen). Every other kill is harmless
  for a reason that is easy to break: the first line of a batch always fits in
  the buffer, so it is never the torn one. A batch that spans an hour is
  committed with its first lines handed over but not fsynced
  (`FsyncedUnlessRotated`, against `archive.go:34`).
* The compactor's two gates hold under two passes; a kill during deletion leaves
  the rest of the day's raw files for ever (`EventuallyFolded` has to except it).
* The recovery of a parked bundle is dead code (`refresh.py:53` creates the
  target directory before lines 55-59 test that it is missing;
  `ParkedBundleRecovered` states it). One interruption is nevertheless harmless
  to the bundle (`SurvivesOneInterruption`), two are not.

### Fairness

The process keeps running and the container is restarted
(`restart: unless-stopped`), so every step of a program has weak fairness, and
`Start` too. Clocks advance where a timer is waited for. `PollMessage` has
strong fairness: a poll may time out although messages wait, but not for ever.
`CheckRemote` and `Download` have strong fairness: the publisher's server,
asked again and again, sometimes answers. `ReloadForDate` and `DailyCheck`
have it because a day is longer than an iteration of the loop. In
`WindowCallback` the loop keeps processing windows, the retry interval passes,
and PostgreSQL, once down, comes back (its outages are bounded). Kills, short
writes, refused renames, clock corrections and failures of MongoDB are bounded
instead and have no fairness.

## Proofs

All for every value of the constants that satisfies the modules' named
assumptions and, where a theorem names one, its hypothesis about the feed; TLC
evaluates both in the runs. A `Spec => []P` is proved from an inductive
invariant that implies `P`, with one step per action.

* `AnalyticsConsumerProofs`. `TypeCorrect` is inductive as it stands.
  `NothingSkippedInSilence` and `PoisonIsNeverPassed` follow from `OffsetInv`:
  `NoSilentSkip` with `HandedOver` (everything this process was handed, and all
  before it, is accounted for or still in its memory), `PoisonStops` and
  `AtOrPast`. `NoSilentSkip` alone is not inductive: the commit needs to know
  that nothing is in flight below its position. `TrackerIsSound` and
  `CommitsFollowStores` follow from `ResultInv`, which adds where a window's keys
  are in each phase of a write and what the verdict at `commit` means.
  `ConsumerImplementsLog`: every step maps to a step or a stutter of
  `LogConsumer`. `CommittedArrivalsAreStored` follows from `StoreInv`: the key of
  every message that was handled is stored, counted as lost with a reason, or out
  of the gate, and so is every key of a window being written, unless it is among
  its results. `FirstArrivalIsKept` has no hypothesis: it follows from
  `MemoryInv` (what the tracker saw and what a window is writing was handed over,
  and no ping still in memory is older) and `FirstProcessInv`. That one says of
  every key a window has processed within the gate that it is *recalled*: the
  tracker has it, or its dwell is over (`DwellIsOver`: none of its pings is
  buffered, and a ping newer by more than the retention has been handed over).
  `PurgedIsOver` is why a purge does not break it: if the dwell ends within the
  retention, the overlap carries none of the key's pings past the window that
  purges it, and none can follow. So no later ping of the key is taken for an
  arrival, and no upsert replaces the first.
* `BunchingTrackerProofs`. `BunchingInv` says that every event, in the tracker,
  in an action or in a document, is *good*: of every bucket it spans, either some
  window judged the pair not apart there, or all that is known of the bucket has
  been seen and holds no pair; its minimum is at most that of every observation
  it spans that some window judged. The second disjunct is the skipped bucket of
  a run, and is what an extension must not spoil: a later ping of that bucket
  would make it a pair after all. It cannot come, because a vehicle's pings
  arrive in order (`VehiclesInOrder`: `vehicle_id` is the Kafka key,
  `guarantees.md:44`) and the tracked event's later end says that both vehicles
  are past it. `IncidentsStayDistinct` and `NearestIsKept` follow, through every
  failed write, discarded window and restart. `NoIncidentIsMissed` needs
  `IncidentInv` as well, which holds while nothing has failed: whatever the
  buffer has let go is older than the overlap (`DroppedAreOld`), pings not yet in
  a window are newer than all that is (`NewerThanSeen`), every stored or pending
  event ends no later than something tracked or than all that is in the buffer
  (`Overtaken`, across the purge), an action never ends before the document it
  replaces (`ActionsReachFurther`), and every incident among the pings seen is in
  a document or on its way to one (`AllReached`). A new incident needs a new ping
  in its later bucket, so the window's buffer holds all there is from its earlier
  bucket on, and its event there ends later than anything tracked of the pair:
  `reconcile()` reports it. The hypotheses are `PingsInStep` and
  `OverlapSuffices` (an event needs at most two observations, and is remembered
  for at least the overlap: both are so in `bunching.py:39` and
  `consumer.py:108-114`). `NotebooksCountTheSame` is about `BunchingAnalysis`, in
  three parts. *The pairs*: `TableInv` (what is known has arrived, finitely much
  of it, with one report of a vehicle at an instant) makes each vehicle's first
  ping of a bucket unique, so the rows of the join that are kept, which are the
  engine's pairs (`KeptArePairs`), are one per two vehicles and bucket
  (`KeptAreRows`). *The counts*: of the rows of two vehicles, whatever their
  routes and directions, those with one base number are those of the buckets that
  no break separates, which is what a run is (`IslandsAreRuns`,
  `RunsAreIslands`), and a run has as many buckets as its island has rows; so the
  map from runs to islands is a bijection, and keeps the sizes that `minimum` is
  compared with (`CountsAgree`). Where no two vehicles were together on two
  routes or in two directions (`PairsKeepTheirPath`), grouping by the vehicles
  and by the full key is the same (`PathsArePairs`), and the runs are the
  engine's. *The clusters*: the table of parents is a forest -- the vehicles have
  numbers that fall from each to its parent (`Ranked`) -- so following the chain
  ends in a root, two vehicles have one root exactly when every set closed under
  the pairs holds both or neither (`UnionConnects`, by induction over the fold),
  and the vehicles reachable from one are the least such set (`ReachableIsLeast`,
  `ComponentsAreFound`). Its hypothesis `OneReportAtATime` is that a report may
  repeat but not differ at one instant: of two such reports `drop_duplicates`
  would keep whichever sorts first (`bunching.py:140-142`), where `FirstInBucket`
  holds both. The fleet is finite (`DetectionAssumption`).
* `GtfsRefreshProofs`. `RefreshInv` says for each point of the swap what the
  target, the staging and the parked directories hold; from it
  `OneInterruptionIsHarmless` and `EtagsAreHonest`.
* `ScheduleMatchingProofs`. `ServiceDayIsFound` is about the arithmetic alone:
  for every offset and delay within `WithinReach` and any change of the clocks,
  the candidate nearest to the arrival is the right service day's.
  `DeviationsAreTrue` needs `PlausibleFeed` (real trips, arrivals that no bundle
  moves, vehicles less than half a day off schedule) and the invariant that the
  lookups' arrivals are those of some bundle. `LookupsComeFromOneBundle` needs no
  hypothesis: `OneBundleInv` covers a load in progress. At every statement, the
  locals built so far are those of the bundle and the date that the load works on
  (`RunningInv`), the attributes assigned so far are these locals, and the others
  are still of the one bundle served before; since the statements that can raise
  precede all assignments (`BodyInOrder`), a load that fails leaves the old ones
  and one that ends leaves only new ones. `EveryPingIsCounted` is a sum over
  routes: the deviations and the counts are those of the last window
  (`WindowInv`), and its pings, counted route by route in a fold over a finite
  set, are the window; it needs `FiniteFeed`. `OnTimeArrivalsAreReported` follows
  from `OneBundleInv` (the lookups are those of one bundle and the date the loop
  last saw) with `WellFormedFeed`: trips and stop times have keys of their own,
  exceptions add or remove a service, and no two bundles have the same version,
  without which `has_changed()` would keep the lookups of the old one.
  `EngineIsTheNotebooks` adds `ShortStops`: vehicles depart in the half-day of
  their arrival, without which the notebook's deviation of a departure and the
  engine's differ.
* `WindowCallbackProofs`. `StatsInv` places every item that was taken: still
  accumulated, in the rows of the hand-over, in the buffer, in the table, or
  excused, with one owner each; from it `ItemsAreCountedOnce` and
  `PoisonIsTheClocks`. `NoItemIsLost` needs `OwnInv` as well: whose items a row
  holds, and that a process ends with rows in its buffer only after PostgreSQL
  went away or the clock was stepped back. `HoursAreJudgedInOrder` and
  `GreenNeedsAReason` have small invariants of their own (the list of judged
  hours lies below the hour in progress; a red check without an alert has a
  reason).
* `IngestionProofs`, of `Ingestion` and `FeedCapture`. `GreenIsPublished`, and
  `OutageEndsInTime` from `RecoveryInv` (the timer never points further ahead
  than the longest wait, time does not pass a timer that is due, and a cycle that
  began in time ends no later than its requests' waiting makes it).
  `GapsAddUpAlways` follows from `TopicInv` (the topic holds messages of valid
  reports, ingested no later than now) and a lemma that the gaps of a vehicle
  tile the time between its first and its last report. `GateTellsSlowAnswers`
  follows from `CadenceInv`: while nothing has failed, the ticks without a poll
  are exactly those at which a request was left waiting, so that the polls of a
  whole minute are its ticks less these. Its hypothesis `RegularFeed` says that
  the poller polls every tick and that some vehicle can be reported at every
  time; the waiting may be as long as it likes. `IncidentsAreSilences` needs no
  hypothesis: for every position `k` there is a length which at most `k` gaps
  fall short of and more than `k` do not exceed (a finite set of lengths has a
  least such), a quantile lies between two neighbouring positions, and the
  detector's minutes hold measured gaps only, each of which is a silence between
  two neighbouring reports of one vehicle.
* `ArchiveConsumerProofs`. `FilesInv`: a .gz lacks no line of the plain file
  beside it but late ones, and what waits in the buffer of an hour that has a .gz
  is late already. A line that becomes whole by an append has its end in what was
  appended; a short write never writes the end of the line it stops in. From this
  `LinesStayArchived`, and `GzipsAreFinal`. `AccountInv` follows each message
  from the fetch to the file: what was fetched is in the batch, in the buffer, in
  a file or excused (`HistoryInv`, `BatchInv`), in which hours (`ClockInv`),
  settled when the offset says so (`SettledInv`), and where a torn end may be
  (`TornInv`); the difficult case is that a line of a torn batch is intact and
  its neighbour is not. With `FsyncInv` it gives `CommittedLinesAreIntact`,
  `FsyncCoversLastLine`, and `ArchiveImplementsLog`: the refinement of
  `LogConsumer`, step by step.
* `ArchiveCompactorProofs`. `TierInv` says of each hour in which tier it is and
  of each pass what it has read and may still delete; from it `HoursAreKept`,
  `ParquetIsWhole` and `DeletionIsGated`, for any number of passes.

Sums, folds, the tracker's loop and union-find are proved about through lemmas
that each of the three modules that need them states for itself: induction as a
statement about a set of naturals (`SetInduction`), and that a recursion over
the subsets of a finite set has a solution (`SetRecursion`). The library's
induction theorems take an operator as a parameter, which the provers cannot
instantiate.

Model-checked only: liveness, which like `ENABLED` is out of the prover's reach.
Every invariant and every action property of the passing runs is a theorem.

## Abstractions

* One partition per topic for the consumers: they treat partitions alike, and
  `vehicle_id` is the Kafka key, so one vehicle's pings are ordered. A
  rebalance between several consumers of a group is not modelled (each group
  has one). `Ingestion` has several partitions, because a `send()` can fail for
  some of them.
* In `AnalyticsConsumer` pings carry only what deduplication sees, and the
  metrics are functions of the window that may fail; the other modules are
  about those functions.
* Bundles have the columns that `load()` takes for granted. A `trips.txt` without
  `route_id`, which is not among the required columns (`loader.py:57-63`), makes
  `_build_trip_route_lookup` (lines 514-522) raise a `KeyError` that no caller
  catches; the model has no such bundle.
* The two printouts of notebook 01 that count rows with coordinates off the map
  and with an unknown status are not modelled; no later step depends on them.
* A window of `ScheduleMatching` holds pings of one instant: overlap and
  deduplication are in `AnalyticsConsumer`.
* `.gtfs-staging-*` and temporary Parquet directories left by a kill are never
  read again and so are not part of the state.
* HEAD and GET reach one consistent server; a CDN that answers HEAD from a
  newer copy than GET is not modelled.
* The compactor sees a file as its number of lines, which is all its
  verification sees; the mapping of the columns to Parquet is data.

## Not modelled

The REST API (stateless reads), the frontend (drawing), protobuf decoding and
the conversion of fields, logging and configuration, CI and Docker (the restart
policy is an assumption). Of the notebooks: plots, summaries and the cells that
examine one captured incident by hand. MongoDB's indexes and the expiry of old
documents are not modelled: no property looks further back than a few windows.

## Plan

Left:

* The deviation collection over weeks: its natural key has no service date, so
  a trip served again by the same vehicle replaces last week's document, and
  the volume rule's baseline shrinks (`writer.py:159`, `alerting.py:238`).
