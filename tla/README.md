# Verification of the SDA pipeline

TLA+ specifications of the Space Domain Awareness backend in this repository:
the Celery pipeline that turns two-line elements (TLEs) into a schedule of
satellite passes over ground stations, and the algorithms it runs. TLC checks
the specifications on small instances; TLAPS proves the theorems listed under
[What is proved](#what-is-proved) for every value of the constants. All paths
and line numbers refer to the repository.

Contents: [Inventory](#inventory) ·
[Modules and how they follow the code](#modules-and-how-they-follow-the-code) ·
[Runs](#runs) · [Fairness](#fairness) · [What is proved](#what-is-proved) ·
[What is only model-checked](#what-is-only-model-checked) ·
[Disagreements between the code and its documents](#disagreements-between-the-code-and-its-documents) ·
[Abstractions](#abstractions) · [What is not modelled](#what-is-not-modelled) ·
[What is left](#what-is-left) · [How to run](#how-to-run)

## Inventory

```
 beat / API trigger
        |
   ingest_tles ---- TLEFetcher ----> tles table
        |  propagate_batch.delay([])
   propagate_batch -- SET propagate_counter:{uuid} n --> Redis
        |  n x detect_passes.delay([norad], key)
   detect_passes --- SGP4Engine, PassDetector ---> satellite_passes (upsert)
        |  DECR key; the task that reaches 0:
   run_greedy ------ GreedyScheduler -----------> is_scheduled, 'greedy'
        |  run_ortools.delay(scheduled_sats, free_slots)
   run_ortools ----- ORToolsOptimizer ----------> is_scheduled, 'ortools'

   API process: read endpoints through RedisCache, APIKeyAuth, RateLimiter,
   admin endpoints, an embedded ingest + pipeline (APScheduler), WebSocket
```

The components talk through three shared stores: the Celery queue in Redis
(messages, acknowledged late), PostgreSQL (the tables `tles`,
`satellite_passes`, `ground_stations`, `api_keys`, at READ COMMITTED), and Redis
keys (the batch counter, cached answers, cached API keys, rate-limit windows).

| Component | State it keeps | Operations | What is hard | What makes it correct |
|---|---|---|---|---|
| **Propagation fan-out** `workers/celery_app.py` 137-185, 244-459 | one Redis counter per batch; a message per satellite | `propagate_batch`, `detect_passes`, `_propagate_counter_decr` | many workers, late acknowledgement, redelivery, retries, soft and hard time limits, Redis errors swallowed | `run_greedy` is sent once per batch, not before all its tasks have ended, and it is sent at all |
| **Two-stage scheduling** `workers/celery_app.py` 462-597, `scheduling/greedy.py` 103-241, `scheduling/ortools_optimizer.py` | `is_scheduled`, `scheduled_by` of the passes; free slots and satellites in a message | `run_greedy`, `run_ortools`, `_bulk_upsert_passes`, clean-up | the table changes between the stages; runs overlap; a task is redone after its commit | no two scheduled passes overlap at a station; a satellite is not spread over stations; a scheduled pass stays scheduled |
| **Scheduling algorithms** `scheduling/greedy.py` 248-509, `ortools_optimizer.py` 76-129, 340-380 | none (pure) | EDF, weighted DP, heap, conflict sweep, interval merge, free slots, slot test, objective | ties, touching intervals, off-by-one in `bisect` and in the reconstruction | each agrees with its reference definition |
| **TLE ingestion** `ingestion/fetcher.py` | rows of `tles`, `is_current` | `fetch_all`, `_fetch_url`, `_parse_and_store`, `_flush_batch` | two reads compared with a whole catalogue, several commits per run, two ingests at once, cut off anywhere | one current TLE per satellite, never none; the table says what the catalogue says |
| **TLE validation** `ingestion/validator.py` | none (pure) | checksum, fields, epoch, pair | column arithmetic, alpha-5 numbers, two-digit years | accepts exactly the well-formed pairs |
| **Pass detection** `propagation/pass_detector.py` | none (pure) | `_extract_passes`, `_interpolate_crossing`, `_refine_max_elevation` | passes that start before or end after the window, one-sample passes | every interval above the mask is one pass |
| **SGP4 engine** `propagation/sgp4_engine.py` | an LRU cache of satellite records | `propagate`, `_validate_tle_format`, `_tle_epoch`, `_jd_from_components` | steps that fail; a second parser of what the validator let in; leap years and noon | what is stored can be propagated; dates are one day apart |
| **Redis cache** `cache/redis_client.py` | cached lists; failures and open time of a breaker per process | `get_passes`, `set_passes`, `_call` | attempts in flight while the breaker opens or closes; lost replies, exhausted pool, evicted or damaged entries | a cached list was true within its life; the breaker closes again |
| **API keys and rate limit** `api/middleware.py` 72-353, `api/routes/admin.py` 106-167, 412-432 | `api_keys`, cached verdicts, request windows | `verify`, `check_rate_limit`, create, update, revoke | a cache fill that races a revocation; time stamps that reach Redis out of order | a verdict is no older than its life in the cache; no window holds more than the limit |
| **Read API** `api/routes/passes.py` | none but the cache | `get_passes`, `get_schedule`, `get_coverage` | answers keyed by less than the query; several statements per answer while the table changes | an answer was true at some recent time; totals add up |
| **Start-up, embedded pipeline, WebSocket** `api/main.py` | scheduler jobs | `_run_pipeline_sync`, `lifespan`, `health` | the same work as the workers, in another process, without messages | the tables stay consistent when both run |
| **Database seeding** `db/init_db.py`, `entrypoint.sh`, `fetcher.py` 196-229 | tables, constraints, a column, stations, one dev key | `create_tables`, `verify_check_constraints`, `seed_*`, `init_ground_stations` | containers start at once, fail and are restarted; two seeders disagree on a column | who serves finds everything; races end; masks are the configured ones |
| **Interval-tree scheduler** `scheduling/interval_tree.py` | none (pure), not called | `_schedule_for_station` | ties, back-to-back passes | selects what `schedule_heap` selects |
| **Dead letters, monitoring** `celery_app.py` 604-669 | a Redis list | `record_dead_letter`, `check_queue_depth` | none | nothing reads what they write |
| **Coordinates, configuration, front end, deployment** | none | - | floats, I/O | - |

`PROJECT.json` lists every component with its status and every hazard with its
line and the properties that cover it.

## Modules and how they follow the code

| Module | Models | Kind |
|---|---|---|
| `PropagationBatch` | the fan-out and its counter | state machine |
| `BatchBarrier` | what the counter promises, without a counter | abstract specification |
| `PassSchedule` | the passes table, both scheduling stages, several runs | state machine |
| `Intervals` | the pure algorithms on intervals | operators |
| `WeightedSchedule` | `schedule_weighted`, one loop turn per step | state machine |
| `PassDetector` | from the steps of a propagation to passes | operators |
| `TleFormat` | what makes two lines a TLE, for the validator and for the engine; dates | operators |
| `TleIngest` | `TLEFetcher` on the `tles` table | state machine |
| `ApiKeys` | `APIKeyAuth` and `RateLimiter` on one key | state machine |
| `PassCache` | `GET /api/passes`, `RedisCache` and its circuit breaker | state machine |
| `Seeding` | `init_db` in several containers and the second seeder | state machine |
| `MC…` | values of the constants and bounded inputs for TLC | |
| `…Proofs` | theorems | |

`PropagationBatch` is shown to implement `BatchBarrier` by the refinement
mapping `Barrier`. `PassSchedule` EXTENDS `Intervals` (it shares `Overlap`) and
uses two of its results as data abstractions: stage 1 picks any conflict-free
subset of the highest benefit (`Best`), which is what `ResultConflictFree` and
`ResultOptimal` check of `schedule_weighted`; the free slots of a message are
represented by the passes that leave them, which `FitsMeansFree` checks of
`get_free_slots` and `_fits_in_any_slot`.

### PropagationBatch

One batch `b` is one execution of `propagate_batch`; it builds its own counter
key from a UUID (lines 281-285), so the key is the batch.

| State | In the code |
|---|---|
| `phase[b]`, `attempts[b]`, `members[b]` | progress of `propagate_batch`, its retries, the ids it resolved |
| `keyed[b]` | FALSE when the SET failed and the tasks carry `""` (line 292) |
| `counter[b]` | the Redis key; a missing key reads as 0 |
| `fired[b]` | `run_greedy` messages sent |
| `pc[b][s]`, `tries[b][s]` | where the `detect_passes` task of satellite `s` is; its retries |
| `soft[b][s]` | whether the soft time limit was raised in this delivery, and who caught it |

Normal steps are `StoreCounter`, `Dispatch`, `EndBatch`, `Deliver`, `Write`,
`Count`, `Fire`, `Return`. Everything else is a fault, named in `FaultKinds` and
enabled by the constant `Faults`: an instance says which faults it admits, and
each property says under which ones it holds. `Overcounting` are the faults
after which a task may be counted twice or finds no counter (soft limit after
the DECR, worker lost after the DECR, expired key), `Undercounting` those after
which a decrement may be missing. How Celery treats a message is taken from the
settings in `celery_app.py` 83-126 (`task_acks_late`,
`task_reject_on_worker_lost`, visibility timeout) and from Celery 5.3.4, the
version `requirements.txt` pins: `retry(exc=...)` re-raises `exc` itself when no
retry is left.

A batch that is not in `Triggered` has no message of its own; it is the second
execution of one that lost its worker (`CrashBatch`), with a new key.

### BatchBarrier

A batch opens with a set of satellites, each leaves once, and it is released
once, when nobody is left. The mapping sends `Outstanding(b)`, the tasks that
have not been counted and still may be, to `waiting[b]`. A batch whose SET
failed opens no barrier: its tasks each trigger `run_greedy`.

### PassSchedule

`rows` and `by` are the table (`by[p]` is `scheduled_by`, "nobody" while
`is_scheduled` is false). A run `r` is one chain `run_greedy` → `run_ortools`,
or one call of the API (`SyncRun`), which runs the first stage by itself, without
retries: the pipeline, which detects passes first, or the call that only
schedules, whose window is seven days whatever is configured. Every SELECT sees what is committed at that
moment; the session does not autoflush, so the marks of a run (`picked`,
`chosen`) are invisible until its commit. Time is counted in ticks, `Second` of
them to a second: `_to_utc_seconds` drops what is left of one.

| Action | In the code |
|---|---|
| `Insert`, `CleanUp`, `Tick` | `_bulk_upsert_passes`, the clean-up endpoint, the clock |
| `StartGreedy`, `ScanStation`, `CommitGreedy` | `schedule_all_stations`, one station per step, one commit |
| `StartSync`, `InsertFromPipeline` | `trigger_schedule_only` and `_run_pipeline_sync`: the window is fixed first; in the pipeline satellites are then propagated and committed one after the other; then the same scans |
| `SendOrtools` | `get_free_slots` for all stations, then `run_ortools.delay` |
| `Redeliver` | the worker is lost after `run_ortools.delay` and before the acknowledgement: `run_greedy` is in the queue again beside `run_ortools`, and the chain forks; the second execution counts as a run of its own |
| `StartOrtools` | read candidates, solve: any feasible answer |
| `CommitOrtools`, `Return` | the marks become visible; the task returns |
| `RestartGreedy`, `RestartOrtools`, `GiveUp` (`Fail`) | rollback or redelivery: the task starts again, before its commit or after it, until its retries are used up |

Two variables are histories that no guard reads. `redone` says that something was
done again after a commit. `together` collects the pairs of passes that one execution
of `run_greedy` and of the `run_ortools` it has sent put into the table, at each of
their commits; a task that starts again begins with empty marks, and what it had
committed before stays in the history.

`Coverage` is what `GET /api/coverage` computes, in one look at the table.
`LongClash` is an overlap of a second or more: two passes that stage 2 has chosen
may overlap for less, no others may.

### Intervals and WeightedSchedule

`Intervals` holds EDF, heap, the interval tree, conflict sweep, merge, free
slots, the slot test and the objective of CP-SAT; a loop over a sorted list is
a fold over it.
`WeightedSchedule` keeps the three loops of `schedule_weighted` (bisect, forward,
backward) as steps because its termination and its index arithmetic are in
question: the reconstruction jumps from pass `i` to `prev[i]`.

### PassDetector

The input are the steps of one propagation: an elevation, `NaN`, or one of the two
failures of SGP4. `IsUsable`, `ValidElevations` and `ValidTimes` are what the
callers make of them (too few valid steps, or a decayed satellite: no passes at
all), so that neighbouring samples may lie more than a step apart.
`ExtractPasses` is `_extract_passes`: `Sanitise`, the edges (`RiseIndices`,
`SetIndices`, the indices of each in `Ascending` order), `PassOf` for the record
of a rise and a set, with `Crossing` for `_interpolate_crossing`, `ArgMax`,
`PeakTime` and `PeakElevation` for `_refine_max_elevation`, `LongEnough` for the
minimum duration. Elevations are integers, interpolated times exact fractions.

### TleFormat

A line is a record of its fields; a field that is converted (satellite number,
year, day) is a sequence of character codes, one that is only compared with a
range is the answer. `IsPair` is `validate_pair` of the validator, `PreFlight`
`_validate_tle_format` of the engine, which looks at the same columns by other
rules. `Checksum`, `SatelliteNumber` (alpha-5), `EpochYear` against
`EngineYear`, and `JulianDate` are the arithmetic.

### TleIngest

An ingest `i` is one execution of `fetch_all`, by Celery or by the API process
(`ApiIngest`, not retried). `Start`, `TryAgain`, `NextSource`, `Download` are
the sources and attempts; `ReadCurrent` and `ReadEpochs` the two SELECTs,
separately interleaved; `Parse` one turn of the loop with the cases `Update`,
`Insert` and `Skipped`; `Flush` the retiring UPDATE of a batch and `Commit` its
commit with the INSERTs; `Return` and `Fail` the end. `curKeys`, `known`,
`added`, `obj` are the local collections `current_tles`, `all_epochs`,
`added_this_run` and the session's objects; they are compared with the table
only at the two reads, which is where interleaving bites.

`overlapped` is a history variable: it becomes TRUE when an ingest reads the
table while another is between its first read and its last commit. It records
the condition under which the code keeps its promise; nothing in the code
enforces it.

### ApiKeys

Keys do not touch each other, so the module follows one: its row, the value
cached for it, its sorted set of requests. A request `q` yields at each call of
Redis, which is where the code awaits; the administrator's handlers run in
threads, and there are several API processes, so everything interleaves.

| Action | In the code |
|---|---|
| `LookUp`, `ReadRow`, `Fill` | `verify`: GET, SELECT, SETEX; errors of Redis are misses |
| `Stamp`, `Check`, `CheckFails` | `check_rate_limit`: the time stamp, then the script; fail-open |
| `Create`, `Update`, `Revoke` | the admin endpoints; none of them touches the cache |
| `EvictKey`, `EvictWindow` | Redis under `allkeys-lru` (`docker-compose.yml` 30) |
| `Break` | the database raises, or the process is lost |
| `Tick` | the clock; Redis drops what has expired |

`was` and `granted` are history variables: what the row has been at each time,
and which requests are recorded since the sorted set was last evicted.
`MaxDelay` is how long a call of Redis takes at most. The code sets no timeout,
so this is an assumption; the properties say how the guarantees weaken with it.

### PassCache

A request is a coroutine: `stage` says which Redis call or statement it has come
to, `call` whether an attempt holds a connection or sleeps before the next one.

| Action | In the code |
|---|---|
| `Arrive` | `get_passes` up to its first await: 400 or look-up or, for a satellite or all stations, the database |
| `LookupReplied`, `EvictReplied`, `FillReplied` | a reply of Redis: hit, miss, damaged entry deleted, list written |
| `AttemptLost`, `Retry`, `RetriesExhausted` | a transient error, the sleep, the next attempt, the failure that counts |
| `AttemptRefused` | any other Redis error: counted at once |
| `ReadPage`, `ReadList` | the two statements; rows of the first keep their values in the second (identity map) |
| `InsertPasses`, `SchedulePass`, `CleanUp` | other writers of the table |
| `GoDown`, `ComeBack`, `LoseEntry`, `DamageEntry`, `Restart`, `Tick` | Redis, the process and time |

`Enter` is `_call` from its look at the circuit to its first await, `OnSuccess`
and `OnFailure` the breaker. A pool without a free connection raises
`ConnectionError` and is treated like an outage (`Attempt`). The statements of a
request are synchronous and block the event loop, hence the guard `Scheduled`.
`recent` is a history variable: the states the table has had and how long ago
they ended. `CallTime` bounds how long a request takes once it has its rows; the
time-outs of attempts bound it in the code.

### Seeding

`tables`, `unchecked`, `column`, `mask` and `keys` are the database; the initial
states are a new one, one of an earlier release and one that an earlier start
left half done. A container takes the steps of `init_db` (`CheckTables`,
`CreateTables`, `AddColumn`, `VerifyConstraints`, `LookForStations`,
`InsertStations`, `LookForKeys`, `InsertKey`); `seen` is what its last look
showed. The losers of a race fail (`LoseRace`), `set -e` ends the container and
the platform restarts it (`Restart`). `IngestLooks` and `IngestInserts` are
`init_ground_stations` of the fetcher, in any container that serves. `legacy`,
`author` and `lost` are history variables.

## Runs

All passing runs finish without an error on two TLC workers within three minutes.

| Run | Instance | Question and answer |
|---|---|---|
| `batch_safety` | 1 batch, 3 satellites, 1 retry, 1 lost worker, every fault outside `Overcounting`; 1.4M states | Is `run_greedy` sent at most once per counter (`AtMostOneGreedy`) and only when no task may still write (`GreedyAfterAll`)? Does the counter refine the barrier (`ImplementsBarrier`)? Yes. |
| `batch_live` | 2 batches, one of which exists only as the redelivery of the other, 2 satellites, 1 lost worker, faults that count twice but lose no decrement; 0.6M states | Does every batch that was sent out lead to `run_greedy` (`EveryBatchFires`, `SettledBatchFired`)? Yes: testing `<= 0` rather than `= 0` matters. |
| `batch_stranded` | faults `db`, `exhaust` | Finding 1 |
| `algorithms` | every list of at most 4 passes with times 1..4 and benefits 1..2, in every order; every propagation of at most 5 steps, each far below, just below, at, just above or well above the mask, not finite, failed or decayed; 0.4M states. Every text of 4 out of nine characters, every field of 5, every date of a century, once | Do the algorithms agree with their reference definitions, and does `schedule_weighted` end with an optimal conflict-free selection? Are the passes the visible runs (`PassesAreRuns`), in order (`PassesFollow`), with their peaks inside (`PeakInsidePass`)? Does the checksum find a wrong digit, do numbers name one satellite, are dates one day apart, and can what was stored be propagated (`AcceptedPropagates`)? Yes. |
| `objective` | lists of at most 5 passes | Finding 2 |
| `schedule` | 2 runs, one of them in the API or the redelivery of the other, 2 stations, 4 passes (`Shared`) that compete, are detected twice or overlap for half a second, half a second a tick, restarts before and after a commit; 1.4M states | Scheduled passes that overlap for a second were never committed by one execution of the two stages (`OverlapsAreReruns`): only a second look at the table brings them about. No step takes a pass off the schedule (`SchedulePersists`). A run that is alone leaves every station free of such conflicts (`LoneRunConflictFree`), a satellite at one station (`LoneRunOneStation`), and totals that add up (`CoverageAddsUp`), although passes are inserted and deleted meanwhile. |
| `schedule_rerun` | one chain whose `run_greedy` is delivered again, one pass that two propagations date differently | Finding 3 |
| `ingest` | 2 ingests, one of the API, 2 satellites, 3 epochs, 2 texts, 3 catalogues, 2 sources, 2 attempts, batches of 2, 1 restart; 0.3M states | One current TLE per satellite, none lost, no INSERT on the unique constraint, the catalogue stored, every ingest ends. |
| `api_keys` | 3 requests, limits 1 and 2, a valid entry lives 3, an invalid one 1, the window is 2, a call takes at most 1, the clock goes to 4, one change of the key; 2.8M states | How old can a verdict be (`AcceptedWasActive`, `RejectedWasInactive`)? One life in the cache and one call. Does the window hold (`GrantedWithinLimit`), and is 429 justified (`LimitedOnlyWhenFull`)? Yes, up to the time of a call. |
| `read_cache` | 1 process with 1 connection, 2 requests, 3 queries (the first day of a station, another window on that day, a satellite), 1 pass, 2 attempts, 2 failures, lives and calls of 1 tick, 1 commit; 0.5M states | How old can an answer be (`AnswerWasTrue`)? As old as the life of a list and two calls: a slow fill may put an older list in place of a newer one. Does the breaker close once Redis is back (`CircuitRecovers`)? Yes. |
| `cache_window` | the same | Finding 4 |
| `seeding` | 3 containers, one of which skips `init_db`, 2 stations, one with the default mask, 1 fault, 3 restarts; 0.4M states | Does a container that serves find everything (`ServedReady`)? Do races end after two losses (`RacesLost`), and does every container come to serve (`EveryContainerServes`)? Are masks the configured ones (`MaskAsConfigured`), unless a container that skipped `init_db` wrote them? Yes. |

**Why the bounds are enough.** *Fan-out:* two tasks show every race of two
decrements, the third distinguishes "the last" from "the last but one" and lets
one task fail while two others race; one retry separates the first attempt, the
retry and exhaustion; one lost worker may hit any step. Batches share no state
but the number of crashes, so a second one is only needed for redelivery of
`propagate_batch` itself. *Algorithms:* four instants give disjoint, touching,
nested, equal and crossing intervals, and four passes the longest chain in which
a skipped pass lies between two selected ones on either side. *Scheduling:* two
stations are needed for the cross-station exclusion, the same pass dated twice
for its gap, and two ticks to a second for overlaps of less than a second and of
exactly one; two runs show every overlap of a read and a commit, and every state
in which one of them is alone. A day is as long as a pass, the shortest that
`ShortPasses` allows, so that clean-up meets every stage; the clock jumps to two
later moments (`Instants`), one inside the first passes and one after which the
oldest is cleaned up.
*Pass detection:* five steps hold two passes with a gap between them, a pass at
either end, passes of one, two and three samples, a failed step in every place,
and, with 60 % to be valid, propagations on both sides of that bound.
*Validation:* four characters bring every carry of a sum modulo ten into reach,
five are a whole satellite number, and the dates are all a TLE can name.
*Cache:* one connection for two requests exhausts the pool, two attempts and two
failures open the circuit while an attempt is in flight, one commit makes an old
list and a new one, and a life and a call of one tick add up to the bound in the
property; two requests are enough for one fill to overtake another.
*Seeding:* two containers race at each step, the third writes in place of either;
one fault and two lost races need the three restarts that are allowed. *API keys:* one
request reads an active key, a second caches the refusal, and the third meets
what the first has cached in its place; the clock outlasts the longer life and a
call; two requests of one instant and one later fill the window. *Ingestion:*
batches of two against catalogues of two to four entries make a batch end
before, at and after the end of a catalogue; the catalogues hold every case of
the loop (new, changed, identical, retired epoch that reappears, second epoch of
one satellite, blank and torn blocks); two ingests with a restart give three
executions.

The theorems lift the safety results from these instances to all values. A run
whose system may stop (everything sent has ended) says `CHECK_DEADLOCK FALSE`.

Every property of a passing run has a mutant in `PROJECT.json`: a plausible bug
in the code it is about (the `Bug:` definitions), under which the run fails.

## Fairness

* `PropagationBatch!FairSpec`: weak fairness of `PropagateBatch(b)` and of each
  `DetectPasses(b, s)`: workers that are up take messages from the queue and
  go on with a task they hold; Celery delivers a queued message eventually. No
  fault is fair, and `Trigger` is not: nothing has to be triggered.
* `WeightedSchedule!FairSpec`: the function goes on until it returns.
* `TleIngest!FairSpec`: weak fairness of `Progress(i)`, which contains `Fail`:
  a task that was started goes on or fails, never hangs (HTTP calls have a
  timeout, `ingest_tles` a time limit).
* `PassCache!Spec`: strong fairness of `Progress(r)`, since a coroutine that is
  ready is now and then disabled by another one of its process that runs its
  statements, and the event loop takes those that are ready in turn; a call of
  Redis ends by a reply or by its time-outs. Weak fairness of `Tick`. Redis
  need not come back: `CircuitRecovers` is about behaviours in which it does.
* `Seeding!Spec`: weak fairness of `InitDb(c)` or `Restart(c)`: a container that
  runs goes on, and the platform restarts one that failed.

## What is proved

| Theorem | Module | For |
|---|---|---|
| `TypeCorrect` | `PropagationBatchProofs` | every set of faults |
| `AtMostOneGreedyHolds`, `GreedyAfterAllHolds`, `CounterImplementsBarrier` | `PropagationBatchProofs` | `Faults ∩ Overcounting = {}`; any number of batches, satellites, retries and lost workers |
| `SettledBatchFiredHolds` | `PropagationBatchProofs` | `Faults ∩ Undercounting = {}`; the same |
| `ResultConflictFreeHolds`, `ResultOptimalHolds` | `WeightedScheduleProofs` | every list of passes of positive duration |
| `EdfOptimal`, `SweepComplete`, `HeapMaximal` | `AlgorithmsProofs` | the same: EDF selects as many passes as possible, the sweep finds the overlapping pairs, the heap leaves out only what a selected pass of no less benefit excludes, and the interval tree selects the same |
| `FitsExactly` | `AlgorithmsProofs` | every window and list of occupied intervals in it |
| `RunsDetected`, `PassesInOrder`, `PeaksInside` | `AlgorithmsProofs` | every propagation, with failed and decayed steps, and all thresholds |
| `WrongDigitShows` | `AlgorithmsProofs` | a line of any length |
| `NumbersTellApart`, `AcceptedIsPropagated` | `AlgorithmsProofs` | fields of five characters without blanks; a day without blanks |
| `OneDayLater`, `NoonTurnsTheDay` | `AlgorithmsProofs` | all dates from 1901 to 2099; all dates |
| `EdfIsOptimalHolds`, … , `DatesAgreeHolds` (eleven) | `AlgorithmsProofs` | the invariants of the run `algorithms`, for all its bounds |
| `TypeCorrect`, `SchedulePersistsHolds` | `PassScheduleProofs` | all constants, any number of runs |
| `OverlapsAreRerunsHolds` | `PassScheduleProofs` | any number of runs, restarts and redeliveries, as long as no pass outlasts the day after which passes are cleaned up (`ShortPasses`) |
| `LoneRunConflictFreeHolds`, `LoneRunOneStationHolds`, `CoverageAddsUpHolds` | `PassScheduleProofs` | every table (for the last one a finite one), network, window, resolution of time and number of restarts; they say nothing of a state in which a second run has been sent or a task was redone after its commit (`Alone`) |
| `EverySatHasCurrentHolds` | `TleIngestProofs` | every catalogue, batch size, number of ingests and restarts |
| `OneCurrentPerSatHolds`, `NoDuplicateKeyHolds`, `FeedStoredHolds` | `TleIngestProofs` | the same, as long as no two ingests have overlapped |
| `AcceptedWasActiveHolds`, `RejectedWasInactiveHolds`, `GrantedWithinLimitHolds`, `LimitedOnlyWhenFullHolds`, `IInvHolds` | `ApiKeysProofs` | any number of requests and changes, any limits, lives, window and delay (`MaxDelay < Window`) |
| `AnswersWereTrue`, `InvariantHolds` | `PassCacheProofs` | any number of processes, requests, queries, commits, attempts and failures |
| `ServedIsReady`, `TwoRacesAtMost`, `MasksAreAsConfigured`, `InvariantHolds` | `SeedingProofs` | any number of containers, stations, faults and restarts |

Each invariant of the run `algorithms` speaks of the lists, texts and dates the run
draws; its theorem follows from the one about all of them in the rows above it.
The type invariant of every state machine is part of these inductive invariants,
so it is proved and not checked by a run of its own. The proofs rest on the
ASSUMEs beside the constants (finite set of satellites, passes of positive
duration, which the CHECK constraint in `db/models.py` enforces, non-empty texts,
positive bounds) and on the hypotheses in the table.

**Fan-out.** `AtMostOneGreedy` is not inductive: a step that sends `run_greedy`
must know that nobody has sent it. The invariant `IInv` adds
`CounterCoversOutstanding` (the counter is at least the number of tasks that may
still be counted: faults outside `Overcounting` lose decrements, never add
them), so a counter at zero means nobody is outstanding; `OneLastTask` (whoever
is about to send is alone and the first), and `OnlyMembersSent`. A decrement
changes the cardinality of `Outstanding` by one, which is where the finiteness of
`Sat` is used. The refinement maps `Count` and every failure of a waiting task to
`Leave`, `Fire` to `Release`, `StoreCounter` to `Open` and the rest to stuttering.

That every batch fires is the same race seen from the other side, and needs an
invariant of its own, `FiringInv`: a task that ends has been counted
(`NoTaskGivesUp`), and until `run_greedy` is sent the counter is at most the number
of tasks that may still be counted, one of which exists or is about to send
(`OutstandingCoverCounter`). Double counting only lowers the counter, which is
why this half survives exactly the faults that the other half excludes. A batch
without a counter sends one message per task that ends (`EachTaskFired`).

**Weighted scheduling.** `PrevCorrect` says what `bisect_right` leaves in `prev`,
`RoomBelow` that everything that may still be selected has set when any selected
pass rises, `SelectedApart` that selected passes follow each other. Positive
durations are needed for `JumpGoesDown`: a pass is not its own predecessor.

That the result is optimal says of the table `dp` what dynamic programming
promises (`OptInv`): entry `k` is the highest benefit of a conflict-free choice of
the first `k` passes (`TableOptimal`), it follows from the entries below by taking
pass `k` or leaving it (`TableFollows`), and while the reconstruction walks back
the benefit it has collected and the entry it stands at add up to the last one
(`Accounted`). A choice of the first `k` passes that takes the last of them keeps
only passes up to `prev[k]`, because the list is sorted by set times. `BenefitOf`
folds over a set, in no order; it is shown to be the number of pairs of a pass and
a unit of its benefit (`BenefitIsCount`), so that the laws of cardinality apply.

**The other algorithms.** A loop over a list is a fold, and what a fold does is
shown by induction over the prefixes of the list: the set of lengths up to which
the loop invariant holds contains zero and with each number the next one. Lists
are compared after sorting, which only reorders them (`SortedByIsStable`).

* *EDF* stays ahead (`EdfAhead`): after each pass it has accepted as many as any
  choice without conflict among those seen, and the last of them has set no later.
* *Conflict sweep*: what the heap has forgotten set before the current pass rises,
  and the order of rises keeps that so.
* *Heap*: the windows committed so far are sorted and apart, hence whatever a
  window overlaps, it overlaps a neighbour of its insertion point
  (`_has_overlap` looks at these two only). The tree holds the same windows.
* *Free slots*: merging keeps the set of covered instants and leaves intervals that
  do not touch, sorted; the slots are what lies between them, so a candidate that
  overlaps nothing lies between two neighbours.

**Pass detection.** Rises and sets alternate: up to each sample there are as many
rises as sets or one more, and which of the two holds is whether the sample
is visible (`Alternate`). Hence the k-th rise and the k-th set enclose one
maximal run. A crossing lies between the samples it is interpolated from, and
between two runs there is a sample that is not visible, so passes keep their order.
The vertex of the parabola lies at most half a step from the highest sample; a
pass of several samples reaches at least that far to either side. A pass of one
sample may not: it ends by a straight line from that sample, and its vertex may
lie beyond, but then it lasts less than half a step. The attempt to prove
`PeakInsidePass` corrected it twice. Its first statement asked of a pass of one
sample only that the *first* step be a step; a later missing step refutes that, on a
list longer than the run's. And it holds for such a pass only if the minimum
duration is at least half a step: the default values (steps of 10 seconds, passes
of 5) just satisfy it, while with `PROPAGATION_STEP_SECONDS=30`, which
`README.md` 625 recommends, the elevations -20, 11, 8 around a mask of 10 give a
pass with its peak after its end.

**Formats and dates.** Replacing a digit changes the sum of a line by their
difference, which is less than ten. A satellite number is four digits and a
place worth ten thousands whose letters continue the digits (`NumberIsRead`); numbers
below ten thousand of two fields agree digit by digit (`FourApart`). A pair that the
validator accepts has equal numbers, hence equal fields, and the year and day it
has read are digits, which is what the engine asks for. The Julian day is split by
month into a linear term, a quarter of the year and a constant; from month to
month these differ by the length of the month.

**Two stages.** Stage 2 reads the schedule through a message, so the invariant
says that the message still names everything scheduled (`SlotsCoverSchedule`),
because until the second commit only the run's own picks are (`OnlyOwnPicks`),
and these lie in the window `get_free_slots` looks at (`PicksFit`, which holds
of every run). With a second run, or a task redone after its commit, the first
of these fails, hence the condition `Alone`, and finding 3 shows the consequence.
What the conversion to seconds drops is less than one (`SecondsApart`), hence
`LongClash`. `OverlapsAreReruns` is about all runs, so it cannot rest on that: no
commit ever brings two long-overlapping passes together (`HistoryFacts`), because
the picks of an execution are in the table at its first commit, then in its
message, or a day old (`CommitFacts`), and what the second stage chooses fits
beside the message. Without `ShortPasses` a pick that was cleaned up could still
last when the second stage chooses, and what it chooses could overlap it. One station per satellite needs the picks by station (`PicksApart`), a message that names their satellites
(`MessageFacts`) and, for what a run has committed, that nothing else is scheduled
(`SatFacts`).

**Ingestion.** `EverySatHasCurrent` holds however ingests overlap, because what a
batch retires it replaces in the same transaction (`RetiredAreReplaced`). That a
satellite has one current row needs more: what the ingest has read is still so
(`ReadIsValid`) and its pending rows take the place of all current rows of their
satellites (`FreshRowsFit`); both hold only while no two ingests are at work
(`OneAtWork`), hence the guard `~overlapped`. `FeedInv` carries the entries that
were handled through the batches (`HandledIsStored`): each has a row, or an earlier
one of its satellite was added, and the session's objects differ from the rows
only in what is about to be written (`SessionAgrees`).

**API keys.** A verdict is old for two reasons: it was cached, or a request that
read the row has not written yet. `ReadsFit` bounds the second by the time of a
call, `CacheFits` says that an entry expires one life after it was written and so
one life and one call after it was true. For the limiter `WindowFits` relates
the sorted set to the requests that were granted: each note stands for one of
them, its score at most one call before it ran, and every request granted less
than the window minus a call ago still has its note, whatever older time stamp
purged the set since. The counting lemmas turn that into cardinalities.

**Cache.** An answer from the cache was true when it was listed. `ReadsTrue` bounds
the age of the rows a request holds by the time it has waited, `EntryTrue` the age of
an entry by the part of its life that is over and one call; a list is put together
from two readings, so its passes and each of its rows are traced separately
(`ListedIn`). Time makes every one of these ages grow by one and moves the
history along (`recent`), up to the `Horizon` the bounds never exceed.

**Seeding.** A look is out of date in one way only: whatever fills the tables or
the stations fills them all in one transaction, so that `seen` is either still
right or everything is there (`Knows`, `Looked`). Hence a container that lost a race
finds nothing to do the next time, and loses no more than two. Steps only add to
the database (`Grows`), which keeps what the others know.

## What is only model-checked

* Liveness (`EveryBatchFires`, `Terminates`, `EveryIngestEnds`, `CircuitRecovers`,
  `EveryContainerServes`).

Every invariant and every action property that a run checks is a theorem for all
values of the constants, except that the theorems under a hypothesis in the table
say nothing beyond it. Liveness is out of the prover's reach, because it rests on
fairness and so on ENABLED. Two disagreements between a small instance and the
general case came out of the proofs, not of the runs: `ShortPasses` and the
conditions of `PeakInsidePass`.

## Disagreements between the code and its documents

1. `batch_stranded` - a task whose retries are used up never decrements
   (`celery_app.py` 453): the `except MaxRetriesExceededError` is not entered when
   `retry` is given `exc`. Lines 160-161 and 446-447 promise the decrement.
2. `objective` - the weight of a satellite exceeds the benefit of one pass, not
   the sum of several, so two satellites of high benefit beat three of low
   benefit. `README.md` 553 and `ortools_optimizer.py` 359-360 say that the
   number of satellites always dominates.
3. `schedule_rerun` - a second execution of `run_greedy` compares candidates with
   each other but not with what is scheduled already, and fills the same antenna
   again, even with the same pass as a later propagation dates it. In the trace it
   is the same message, delivered again after `run_ortools` was sent; the next
   run or a trigger does the same. `README.md` 545 says that no two passes at
   a station overlap.
4. `cache_window` - the key of a cached list is the station and the day on which
   the window starts (`redis_client.py` 181), and a hit is not filtered
   (`passes.py` 213-220): a query is answered with the passes of another window.
   `passes.py` 29 says that "subsequent identical queries hit cache".

Read off the models without a run of their own:

* *Fan-out.* A worker lost between the DECR (`celery_app.py` 426) and the
  acknowledgement makes its task count twice; line 159 promises `run_greedy`
  exactly once. A soft time limit raised inside `_propagate_counter_decr` is caught by
  its own `except Exception` (182) and the decrement is lost, although lines
  20-21 promise it.
* *Scheduling.* Stage 1 may select several passes of one satellite at one
  station; `greedy.py` 111-113 and `README.md` 505 say at most once. The clean-up
  ignores its `keep_days` (`admin.py` 387, 397).
* *Detection.* `_refine_max_elevation` (`pass_detector.py` 458) adds (r-l)²/(4·two_a)
  where the vertex of the parabola it fits (20-21, 426-427) is at (r-l)²/(8·two_a).
  `has_data_gap` never becomes true, because a sample that is not finite
  counts as below the mask (278, against 10-11).
* *Validation.* The validator accepts satellite numbers and days padded with
  blanks, which the engine refuses at every run (`sgp4_engine.py` 172). Alpha-5
  counts the letters I and O, which the scheme leaves out. Day 366 of a common
  year is taken for the first of January of the next one.
* *API keys.* The cached state `"revoked"` (`middleware.py` 195) is read but never
  written, so a revocation takes effect when the cached `"valid"` expires.
* *Cache and read API.* A list lives 3600 seconds by default, while `README.md` 113, 152
  and 582 say five minutes. `get_schedule` leaves out passes that cross midnight,
  on both dates (`passes.py` 296-297). `get_tle`, `set_tle` and the `invalidate_`
  methods are never called.
* *Start-up.* `init_db.py` 316 calls a start of every container safe; of two that
  start together on a new database one may fail and need its restart. A row
  that is there never gets its configured mask, and the fetcher seeds the
  default one. The first ingest of the API "fires immediately" (`main.py` 243)
  five minutes later (254).

## Abstractions

* What a task computes (positions, elevations) is left out: `detect_passes`
  inserts any passes of one satellite that lie in the window of a propagation.
* `retry()` publishes the new message and acknowledges the old one in one step.
  A redelivered `detect_passes` inserts what it inserted before or other rows;
  `Insert` covers both.
* `get_free_slots` for all stations is one read in `SendOrtools`: passes that
  another run commits between two stations are seen for all or for none.
* In `PassDetector` elevations are integers, times are fractions where the code
  rounds to microseconds, and azimuths and truncation flags are left out.
* In `ApiKeys` a tick stands for any span of time, an answer of Redis is lost or
  arrives, and a malformed cached value does not occur (only `verify` writes it).
  A call takes effect and is answered in one step; the time an answer travels
  back adds to the ages in the properties.
* The solver returns any feasible choice, since it may stop at its time limit.
* In `TleIngest` the columns of a TLE are one value (`text`), its format checks
  one flag (`sound`), and waiting for row locks is left out: the UPDATE retires
  the same rows later. A body that is not UTF-8 raises in `_fetch_url`; that is a
  `Fail` while fetching.
* In `PassCache` an answer is the rows its page is cut from; paging and the count
  that goes with a page are left out. An entry is absent, damaged or a list.
* In `Seeding` a table is its existence, its CHECK constraints and the elevation
  masks of the stations; one fault stands for any error of a statement or a kill.
* `get_coverage` is one look at the table in `Coverage`; the code takes one
  statement after the other, each with a snapshot of its own.

## What is not modelled

* Numerical propagation and coordinate transforms (`sgp4`, `coordinates.py`): floats
  without state. The cache of satellite records in the engine never changes a
  result, and `batch_propagate` has no caller.
* Dead letters, the queue monitor, the failure signal, health, ping, statistics and
  the WebSocket: they report, and nothing reads what they write.
* `GET /api/schedule` (one query on one day) and `get_coverage` interleaved with the
  writers: the first adds no state, the second multiplies the states of
  `PassSchedule` by those of a reader that writes nothing.
* `get_tle`, `set_tle` and the `invalidate_` methods of the cache: no caller.
* The session handling of `IntervalTreeScheduler`: neither workers nor API call it.
* Configuration, logging, front end and deployment files; their values appear as
  constants.

## What is left

The order was that of importance: the fan-out and its barrier, the algorithms,
the two stages, ingestion, API keys with the rate limit, pass detection, the
cache with its breaker, seeding, and the format of a TLE, each with its
theorems where it has an invariant. What could follow:

1. a reader of `GET /api/coverage` whose statements interleave with the writers, on an
   instance of its own;
2. which sources were tried before an ingest fails: a body that is not UTF-8
   raises in `_fetch_url` (`fetcher.py` 148) and skips the fallbacks;
3. safety halves of the liveness properties: measures that every step of
   `WeightedSchedule`, of an ingest or of a start of a container decreases;
4. a second batch generation beside a schedule run: `PropagationBatch` composed
   with `PassSchedule`, so that `fired[b]` becomes the `Trigger` of a run.

## How to run

```
tlc -workers 2 -config PropagationBatchSafety.cfg MCPropagationBatch.tla
tlapm PropagationBatchProofs.tla
```

`PROJECT.json` names the module and the configuration of every run, the mutants,
the theorems, and for every definition the lines it models.
