# ParkingNav-X in TLA+

TLA+ models of the ParkingNav-X repository (paths below are relative to its root,
as in `PROJECT.json`, where they start with `src/`), TLC configurations that check
them on small instances, and TLAPS proofs for instances of any size.

    tlc -workers 2 -config Twin.cfg MCDigitalTwin        # one run
    tlapm DigitalTwin_proofs.tla                          # one proof module

`PROJECT.json` lists the components, the runs with their properties, for each
property a change of the code's model that violates it, the source lines behind
every definition, the findings, the hazards and the theorems.

## 1. The system

A FastAPI backend over async SQLAlchemy and PostgreSQL, a React front end, and
Python command-line programs. Every request opens one database session
(`expire_on_commit=False`), runs in READ COMMITTED, and commits one or several
times. There are no locks, no version columns, and hardly any unique constraints
beyond primary keys: what two requests do at once is decided by which SELECTs see
which commits and by which columns each UPDATE names.

| Component | State it keeps | Operations | Hard behaviour | What makes it correct |
|---|---|---|---|---|
| **Campus configuration** (`config_loader/`, `scripts/load_campus_config.py`) | campuses, gates, roads, lots, destinations, events, route edges, `active_configuration_version` | validate a file, write it whole with version + 1, prune what the file dropped, seed the twin | waits, deadlocks and refusals over foreign keys between loads that overlap, a crash before the twin is seeded | what is committed is one whole file under one version; the twin has a row for every entity and none for another; every load ends |
| **Digital twin** (`services/digital_twin.py`, `freshness.py`) | one row per lot, gate, road, vehicle and the campus; append-only snapshots | `init_campus`, `update_parking/gate/road/vehicle`, `set_predicted_occupancy`, `get_state`, `snapshot`, `reset` | overlapping read-modify-write sessions, reads over several SELECTs, inserts that race, crashes | an entity shows one whole observation with its own labels; the capacities mirror the configuration; nobody writes a column that is not his |
| **Ingestion** (`services/ingestion.py`, `routes/ingestion.py`) | `observations_raw`, `observations`, `observations_rejected`, `ingestion_batches` | one observation, bulk CSV, CV batch | check-then-insert duplicates, several commits per request, swallowed twin refusals, crashes, unreadable cells | every raw row gets one verdict; no duplicates; the twin shows only what was accepted; the counters of a batch add up |
| **Simulation** (`services/simulation.py`, `simulation/run.py`) | gate queues, vehicles, two schedules keyed by minute, a counter per lot, the twin | per minute: arrivals, gates and allocation, parking, departures | buckets popped once, noisy readings, closures mid-run, refusals of the twin swallowed | lots never overfull, counters exact, nobody lost or overtaken, the twin follows |
| **Allocation strategies** (`services/allocation.py`) | none | `choose` of the three strategies | ties, apparent versus true room | a choice is a candidate that appears to have room |
| **Navigation** (`services/navigation.py`) | a graph built per request | route, nearest parking, nearest destination, search | live closures read apart from the edges, through rows the session may hold already | the route is a shortest one, over what was not closed when it was read |
| **Prediction service** (`services/prediction.py`) | model registry cache, stored predictions, the twin's forecast column | predict, register | a cached "no model", three transactions per forecast | what the twin shows is on record |
| **Prediction training** (`ml/prediction/`, `prediction/train_real.py`) | model files | features, time split, training | leakage across the split | a feature of a bucket uses earlier buckets only |
| **Risk** (`services/risk.py`) | none | assess, proactive trigger | unknown inputs, band edges, weights over what is known | the combination lies within its parts; an unknown is never a score |
| **Optimization** (`services/optimization.py`) | none | recommend, baselines, compare | the twin changes between a dozen SELECTs and several commits; time limit, fallbacks | what is recommended was feasible; the best candidate wins; no feasible one is an answer, not an error |
| **Experiments** (`services/experiment.py`) | stored grids of runs | run, compare, export | many simulations writing one twin | the same seeds for every strategy |
| **CV** (`ml/cv/`) | calibration reports, the decisions the loop was constructed with | classify, post, calibrate, promote | one failing call stops the loop; decisions grow old while it runs | a posted count is near the truth; only a camera that earned it is trusted unsupervised |
| **Observation files** (`scripts/`) | CSV and GeoJSON files | merge, convert | observers who disagree | no row is made of a disagreement |
| **Navigation page** (`frontend/src/Navigate.tsx`, `api.ts`) | gate, destination, search, the two legs, polled status, the report form | choose, locate, search, plan, poll, report | answers that arrive out of order or never, inputs meanwhile | what is shown belongs to what was asked last |
| **Application shell** | the session factory | wiring, logging, health | - | - |

How they meet: the twin is the shared state. `load_campus_config` commits a
configuration and then calls `init_campus` in a second transaction; ingestion
commits an observation and then calls `update_parking` or `update_gate` in a second
transaction; a simulation initialises the twin and writes each change of occupancy
into it; the prediction service writes its forecast column; navigation, risk,
optimization and the page read it. No caller inside the application passes a
`status` to an update; `reset`, `snapshot`, `update_road` and `update_vehicle`
are called by tests and whatever schedules them outside.

## 2. The modules

    UnitOfWork <- DigitalTwin <- TwinProperties <- TwinHistory <- MCDigitalTwin, DigitalTwin_proofs
        |         TwinRegister <---'  (INSTANCE)
        |         Ingestion <- IngestionProperties <- MCIngestion, Ingestion_proofs
        `---- CampusConfig <- CampusConfigProperties <- MCCampusConfig, CampusConfig_proofs
    Allocation <- Simulation <- SimulationProperties <- MCSimulation, Simulation_proofs
    Prediction <- Risk <-.
              Navigation <- Optimization <- OptimizationProperties <- MCOptimization, Optimization_proofs
    NavigatePage <- NavigatePageProperties <- MCNavigatePage, NavigatePage_proofs
    CvPipeline <- CvPipelineProperties <- MCCvPipeline, CvPipeline_proofs
    Sums_proofs <- Optimization_proofs, CvPipeline_proofs

**UnitOfWork** is what SQLAlchemy and PostgreSQL do to one row between a SELECT and
a commit, modelled from how the services use them: an UPDATE sets the columns whose
value differs from the one loaded, and is applied to whatever the row is by then; an
INSERT over an existing key or an UPDATE of a deleted row fails the whole
transaction. A flushed row is locked until its transaction ends, so nobody sees or
changes it in between, and applying the flush at the commit is exact.

**DigitalTwin** has one action per statement that can be interleaved.

| Code | Actions |
|---|---|
| `update_parking`, `update_gate`, `update_road`, `update_vehicle` | `Update` (checks and assignments), `MergeNew` (the second SELECT of `session.merge`, for a row not found), `CommitUpdate` |
| `set_predicted_occupancy` | `SetPredicted`, `CommitPredicted` |
| `load_campus_config.py` | `Upsert`, then the steps of `init_campus` in the same session |
| `init_campus` | `StartInit`, `InitRead` per configuration table, `InitRow` per entity, `MergeNew`, `CommitInit` |
| `reset` | `StartReset`, `ResetTable` per table, `CommitReset` |
| `snapshot`, `get_state` | `StartSnapshot`, `ReadTable` per table, `CommitSnapshot` |
| a process that dies | `Crash` |

`rows` is what is committed, `loaded` and `mapped` are a session's images of the
rows before and after its assignments, `seen` and `todo` what its last SELECT of the
configuration returned. The columns of the four tables share names: `reading` is
occupied, queue, load or the vehicle's state, `extra` is the forecast, throughput,
congestion or assigned lot, and `total_capacity` stands for the five capacity
columns that are always copied together. `active_scenario` is always "normal" and
left out. Calls that raise before they assign anything change nothing and are not
steps.

**TwinRegister** is the abstract specification: each entity shows one whole
observation as some writer offered it, or nothing; writes and resets are atomic.
`RegisterSpec` states that the twin implements it, with `Stamp(rows[e])` as the
register.

**TwinHistory** adds two history variables for `MirrorsConfig`. The version and the lots come
from different SELECTs, and the rows of the twin from others, so an `init_campus` that another
commit of a configuration or of an `init_campus` overtakes may leave the copies of two files side
by side. `alone` are the sessions that nobody has overtaken, `mirrored` says that the last to touch
the copies was one of them. The code never touches either; only the property reads them.

**Ingestion** runs any number of requests at once. A request walks its rows:
`Record` (flush of the raw row), `Validate` (all checks up to the SELECT of the
configuration), `Compare` (the SELECT of duplicates), `Reject` or `Accept` (a commit
of everything the session holds), `SyncTwin` (the second transaction), and
`FinishBatch` (the counters). `RecordFails` is the flush that raises: the schema of a request bounds
neither texts nor integers, the columns do (`TooLarge`), so PostgreSQL refuses the raw row, the request
ends with what was committed before (`Abandon`), and its batch keeps the counters 0/0. `uncommitted` is what only the session itself sees.
`SubmitUnreadable` is a CSV with a cell that `int`, `float` or `datetime` cannot
read. `Upsert` and `InitTwin` are the two transactions of a configuration load;
`version` and `twinVersion` differ between them and after a load that died there.
`vehicle_count`, `occupied_spaces` and `event_intensity` are one `amount`: an
observation has one subject and only its measure is looked at.

**Simulation** is the minute loop: `phase`, `cursor` and `budget` are its control
point, `queue` the gate queues, `due` the keys of the two dictionaries
`arrivals_at_lot` and `departures`, `reserved` the lots' `reserved_or_occupied`,
`shown` the last occupancy the twin took from the run. The random generator's draws
are choices: how many vehicles arrive, how wrong the room of each lot appears, how
long a vehicle parks. What holds in the model holds for every seed. As in the code, a
restricted lot is closed while a restricted gate stays open, windows on roads are
never looked at, and a refusal of the twin (an override above its ceiling) is
swallowed. Phases 3 and 4 take the vehicles of one bucket in any order, of which the
code's is one.

**Allocation** is the choice of the three strategies, as an operator: the lots the
strategy may return, given travel times and the room that appears.

**CampusConfig** is `load_campus_config.py` run by several operators at once.

| Code | Actions |
|---|---|
| `load_campus_config_file`, `validate_campus_config` | `Valid`, one operator per check; `Reject` |
| `upsert_campus_config` | `ReadVersion` (a plain SELECT), `LockCampus` (the flushed UPDATE, which holds the campus row until the commit), `WriteTable` per table (merge and prune), `PruneFails` (the foreign key refuses), `CommitConfig` (edges, commit) |
| `init_campus` | `SelectTable` per table, `InsertTwins`, `InsertFails` (the key exists, or its entity is gone), `CommitTwin` |
| PostgreSQL, the machine | `WaitsFor` (whom a statement waits for), `AbortDeadlock`, `Crash` |

`campus` is the campus row's own name, description and timezone (`CampusColumns`), `base` what a load read
of it before it held the row: at the commit only the columns in which the file differs from `base` are written
(`CampusAfter`), so that they, unlike the rows of the five tables, may end up as those of two files.
`work` is the configuration as the writing transaction sees it, `inserted` the twin rows
of an uncommitted `init_campus`. What `DigitalTwin` does to the columns of a twin row is
not repeated here, only which rows there are. In `DigitalTwin` and `Ingestion` a load is
one step, `Upsert`: `RowsAreOneFile` is why it may be one. `WriteTable` takes one table
at a time; that merge and prune are together is exact, because the row locks between them
are met by nobody but the waits above. The campus has been loaded once and its twin
seeded when the model starts.

**Navigation**, **Prediction** and **Risk** are operators. `Graph` is `_build_graph` (the
last of parallel edges wins, as in a `DiGraph`), `Route` and `RouteToNearest` return all
shortest legs, of which networkx returns one, over all simple paths, which is their
definition rather than Dijkstra's algorithm. `Forecasts` is everything a model may say
of a lot; `Get` is the registry's cache. Ratios are hundredths rounded down, percentages
integers.

**Optimization** is one request after the other at the server, each a walk through its
awaits: `ReadGate`, `CheckLot`, `ReadClosedNodes` and `RouteToLot` are
`_generate_candidates`, `Choose` the end of the baselines, `AssessClosed`, `Predict`,
`SyncForecast` and `Resolve` one round of `_score_candidates`, `Score`, `ChoosePredicted`
and `TimeOut` the ways it ends; `ReadAvailable` and `RouteToNearestLot` are
`find_route_to_nearest`. Meanwhile `UpdateLot`, `UpdateGate`, `UpdateRoad` and `Train`
change a row or a model, and `Restart` ends the process. The twin is a register per row,
which is what `RegisterSpec` shows of `DigitalTwin`. Rows that the session holds are not
read again (`gateSeen`, `lotSeen`), as its weak identity map returns them.
`since` is a history variable: what each entity has been since the request began; only
properties read it. `Recorded` are the lots whose model's evaluation is a row of
`prediction_evaluations`; nothing under `src/` inserts one, so with a trained model the
foreign key refuses the forecast unless somebody has. Nothing under `src/` puts a model
into the registry's directory either, so `Train` is external. `compare()` is four
requests. Left out: the waiting-time term (equal for all candidates), the geometry of a
route, `search_destinations` and the nearest destination, which only read. The two
routers construct registries of their own; each is the one of the model. A time-out is
possible after the first candidate, the earliest the code looks at the clock again with
time gone by. Road loads are never written by anything in `src/`, so their risk is
unknown.

**NavigatePage** is the React state with an action per handler, effect and answer. A
fetch under way is a member of `searches`, `plans` or `fetches`; whatever it was created
with (query, gate, destination) is in it. A search that its effect's cleanup has
cancelled stays under way but is not `live`. `gatesAtClick` are the gates the location
handler closed over. The live status is the number of observations the twin has shown,
so an older answer is a smaller number. `ReportNotShown` is the report that ingestion accepts and the twin
refuses: `_sync_twin` swallows that, so the page is answered 201 and thanks the driver all the same. The page is the application's only one and is
never unmounted.

**CvPipeline** composes the loop of `ml/cv/pipeline.py`, ingestion (one statement per
reading), the survey by hand with the agreement rule of `merge_observations.py`, drivers' reports from
the page (`Report`: also a `manual_count`, which calibration does not tell from a survey), and
calibration with its two SELECTs and the promotion rule. Whoever constructs the pipeline passes the
decisions in; that he takes them from the newest reports is the model's assumption. `sample_size` is
stored and printed but decides nothing in the code: that a camera should stay `cv_verified` below 20
samples (`docs/CV.md`, Report) is left to the people who start the loop. `Stop` is any exception, which
nothing catches, and the end of the process. The classifier is any function that is right
about the spaces it is confident of, in a sharp picture. Only the pipeline posts camera
readings here; the endpoint itself would take one from any client.

## 3. The runs

| Run | States | Question | Result |
|---|---|---|---|
| `Twin` | 1,186,021 | Does the twin implement the atomic register while one session observes, resets and initialises, another loads configurations, forecasts and records, and both may die? Is the twin right after an `init_campus` that nobody overtook, does a column change only through its owners, does freshness only decay? | holds |
| `TwinMixedLabels` | stops | Do readings keep their labels when a person and the simulation update one lot at once? | violated |
| `TwinTornSnapshot` | stops | Is a snapshot that overlaps a configuration load one instant? | violated |
| `Ingestion` | 56,045 | Do raw rows, verdicts, batches and the twin stay consistent with crashes, duplicates, refused rows, rows too large for their columns and two configuration loads? Is what is recorded of a request its beginning, without a gap? Does every batch of a server that stays up, with rows that fit, end with counters that add up? | holds |
| `IngestionRace` | stops | Are duplicates found between concurrent requests? | violated |
| `Simulation` | 15,544 | Places, queues, schedule, overflow and the twin in a scenario for each strategy | holds |
| `Config` | 189,622 | Are the rows and edges always those of one whole file while two sessions load, fail, wait for each other and die? Does the twin follow? Does every load end? | holds |
| `ConfigPrune` | stops | Does a valid file without one of the lots load, with nobody else about? | violated |
| `Recommend` | 254,594 | While lots, gate, road and models change under a request: was what it recommends feasible, is nothing better, why may it fail, are forecasts on record, is a risk within its parts? Does it end? | holds |
| `NavigatePage` | 249,948 | Do results, directions and markers stay those of the last question, whatever order answers come in? | holds |
| `Cv` | 252,862 | How near is a posted count, has a camera posted as trusted ever been near a count by hand, does every camera get its turn? | holds |
| `CvAutoStale` | stops | Is a reading posted as `cv_auto` only while that is the lot's current decision? | violated |

What each property says is in the comment above it, in the `*Properties` modules and in `TwinHistory`.

**Bounds.** Everything bounded is a constant of the module or of the MC module.

- `Twin`: one lot, one gate, one vehicle, two sessions, two configurations (the lot
  shrinks, the gate is added), three observations, of which one comes without a time and
  one from the future with a closing status, four more that must be refused, a clock of two
  instants (`MaxTime`). The conflicts of this code are between a pair of sessions on
  one row, so two sessions meet all of them: update against forecast, load against
  update, insert against insert (of every new row, by a load and an `init_campus`), reset against load, load against `init_campus`. Rows of different entities only
  meet in `reset`, `snapshot` and `init_campus`, for which a lot, a gate and the campus
  are there. There is one observing session because with two the register is known to fail
  (`TwinMixedLabels`); it also runs `init_campus`, as the simulation does, against the session that
  loads. Both may die anywhere, also between a configuration and its `init_campus`. That snapshots
  are of one instant is not asked here: `TwinTornSnapshot` shows that they are not. Roads run through the same actions as gates; the
  proofs do not leave them out.
- `Ingestion`: one lot, one gate and one event type, two configurations (the lot
  shrinks, so a reading can pass under one ceiling and fail under the other; the gate
  appears), two clients with two and three rows, of which one may die at any point.
  Requests include a duplicate in a batch, of a lot and of an event, an unreadable
  cell, a row that its columns cannot hold between two that they can, a row with two subjects, and an empty lot id beside a gate. The clients use
  different keys: with a shared one, `IngestionRace` shows what happens.
- `Simulation`: two gates and two lots, five vehicles (`MaxVehicles`), four or five minutes,
  parking for one or three minutes. The three scenarios hold a lot whose override
  is above the twin's ceiling, a lot without any place, readings one too low or too
  high, a lot restricted and a gate closed while vehicles wait, a gate that opens
  late, and travel times of a half minute, one and a half and two and a half.
- `Config`: two sessions, of which one may die; four valid files (`MCFiles`): one that adds a
  gate and a lot, one that corrects a capacity, one that moves a road to a new destination, so
  that loads prune, insert and collide in every table; and one invalid file per check of the
  validation. The files have different campus columns, so that overlapping loads
  mix them. `MaxVersion` 3 is the first load and two more. Two sessions already wait for each
  other in both directions (campus row, inserted twin row, deleted row) and can be aborted; the
  proofs have no bound. `ConfigPrune` has one session and two files.
- `Recommend`: a gate and two lots with two parallel roads and one between the lots, whose travel
  time is zero; the first road starts out closed. Two changes of others (`MaxUpdates`) and two
  requests (`MaxRequests`, so that the second one meets the first one's cache and forecasts) of
  every kind. Two estimates, below and above the capacity of two. One lot has a trained model
  whose evaluation is recorded, the other may get one whose evaluation is not. Two changes are
  what it takes to make a lot infeasible and to change what another one is judged by.
- `NavigatePage`: two gates, two destinations, three queries of which one is too short and one is
  the name of a destination; four inputs (`MaxInputs`: type, select, plan, change), one report
  and its refresh beside one poll (`MaxReports`, `Polls`), two observations (`MaxVersion`: the
  driver's and somebody else's).
- `Cv`: a lot of ten places of which five are annotated (a fifth is one space) and one with none;
  pictures that are clear, with one and with two uncertain spaces, and blurry; surveys that agree,
  disagree and have two times, drivers who report a count that is near and one that is made up
  (`Reported`); a clock of two instants (`MaxTime`). A calibration compares readings
  of one exact timestamp; in the code these are `datetime.now()` of a loop against the minute of a
  survey and hardly ever equal, in the model they are whenever the instants are.

**Fairness.** `Ingestion` has weak fairness of each session's `Step`: the server keeps
running a request it has taken (asyncio schedules every ready task, each step is one
awaited statement), while nothing obliges a client to send one or a loader to run;
`BatchesAddUp` excepts the sessions whose server may die and requests with a row too large for its columns. `Simulation` has weak fairness of
`Next`, because the loop is one synchronous function that runs by itself.
`DigitalTwin` has none and no liveness property: nothing in it has to happen. `CampusConfig` has strong
fairness of each session's `Work`: a session that waits is let through by PostgreSQL's queue of lock
waiters in turn, and a circle is broken by aborting one of it. `Optimization` has weak fairness of `Serve`:
the event loop comes back to a request whose statement has returned. `NavigatePage` has weak fairness of
the polling timer, and strong fairness of the server's answers: fetches may fail as often as they like
but one of them gets through again and again. That is an assumption about the network, which
`ReportStaysVisible` needs: the code only gives the driver another poll. `CvPipeline` has weak fairness
of `Loop`; `CamerasAreSampled` excepts a loop that has stopped, because nothing restarts it.

**Deadlock** is checked in every passing run. `Quiet` and `Stored` are the states in which ingestion
and a simulation rest. `ConfigPrune` does not check it: with only valid files, the loader really stops
at the bound on versions.

## 4. What the code does otherwise than it says

1. `TwinMixedLabels`: two updates of one lot overlap. Each loads the row and UPDATEs only
   the columns that differ from what it loaded. When one of them repeats a value the row
   has, that column keeps the other's value: a counted reading under the labels
   `simulation`/`SYNTHETIC`, or a simulated one under `manual`/`REAL`. `README.md` (Module 7)
   and the docstring of `simulation.py` rely on the labels to tell the two apart.
2. `TwinTornSnapshot`: `get_state` reads five tables in five SELECTs; a configuration load
   that commits between them is seen in part. `models/twin.py:101` calls a snapshot a
   point-in-time capture.
3. `IngestionRace`: the duplicate check does not see rows other sessions have not
   committed, and no unique constraint stands behind it.
4. `ConfigPrune`: a lot, gate or road that the file no longer lists cannot be deleted, because its twin
   row, which every load seeds, refers to it; neither can a road whose route edges are still there. On
   PostgreSQL the whole load fails with an IntegrityError. `upsert.py:23` says such entities are pruned, and a
   test shows it, on SQLite without foreign keys.
5. `CvAutoStale`: the loop keeps the decisions it was constructed with. A camera that a new report demotes
   while the loop runs goes on posting `cv_auto`; `docs/CV.md:93-95` says the method is "taken from that
   lot's current promotion-rule decision".

Met while modelling and not the subject of a run of their own:

- a request dies at the flush of a row its columns cannot hold (`ingestion.py:213`): what came before it is
  committed, its batch keeps 0/0. Neither that row nor one beside an unreadable CSV cell is in `observations_raw`,
  which the docstring of `ingestion.py` promises "unconditionally" of every row;
- the name, description and timezone of the campus can be those of two files after two overlapping loads
  (`upsert.py:27-38`), which may also write the same version, or a lower one (28);
- a driver is thanked with "status updated" (`Navigate.tsx:411`) for a report that the twin refused, because its
  entity is gone or its ceiling is still that of an older file: no marker will ever show it;
- an empty count field is `Number("")`, 0, so a second click on Report reports an empty lot (`Navigate.tsx`); a failed
  poll keeps the old markers, although the comment at `Navigate.tsx:148` says they "just show unknown"; the answer to a
  location request replaces a gate chosen meanwhile;
- one pair of counts, of which one may be a single driver's, promotes a camera.

## 5. The proofs

TLC checks small instances; the theorems hold for every campus, any number of
sessions, vehicles and configurations, all observations and scenarios, from the named
assumptions of the modules, which TLC evaluates in the runs. They say what the
validators and schemas ensure, and nothing about the order of events:

| Assumption | What it says, and why the code ensures it |
|---|---|
| `ObservationsAssumption`, `TimeAssumption` (`DigitalTwin`) | readings are integers, statuses those of the schema; clock and thresholds are natural numbers |
| `EntitiesAssumption`, `NamesAssumption` (`Ingestion`), `DistinctIds` (`Optimization`) | ids of different tables differ: a file that gives two entities one id is refused |
| `SessionsAssumption` (`DigitalTwin`) | the roles are roles of sessions |
| `ConfigAssumption` (`DigitalTwin`, `Ingestion`) | a lot of a file has a capacity; later files keep earlier entities, because a prune of one fails at the foreign keys (finding 4) |
| `NoRowAssumption`, `NoOfferAssumption`, `NullIsNoId`, `NothingIsNoLeg`, `NothingIsNoMethod`, `BlankAssumption` | the values that stand for "nothing" are not values; no entity is called "" |
| `RequestsAssumption` (`Ingestion`) | a single observation is one row; a row that could be read has its columns, and an empty cell of a CSV is no value |
| `FilesAssumption`, `RowsAssumption` (`CampusConfig`) | the first file is a valid one, the files list entities of the campus; what stands for no row is none |
| `CampusAssumption`, `ScenariosAssumption` (`Simulation`) | capacities and rates are natural numbers, parking takes at least a minute |
| `CampusAssumption` (`Navigation`) | there are finitely many gates, `LotOrder` lists the lots once each, the route edges are a sequence of edges whose travel times and distances are natural numbers |
| `RowsAssumption`, `RequestsAssumption` (`Optimization`) | occupied, queue and capacity are natural numbers or missing (the twin refuses a negative count, the schema has `ge=0`); every profile has positive weights |
| `EstimatesAssumption` (`Prediction`) | estimates are integers: nothing keeps a model from a negative one, so a percentage may be negative too |
| `QueriesAreNamed` (`NavigatePage`), `CamerasAreKnown` (`CvPipeline`) | destinations have names that can be searched for; lots have a positive capacity, a picture is one of its lot's, a survey has a count |

Where a proof takes the first element of a sequence or its last (`LotOrder`, the rows of a
request, the samples of a survey), the assumption that it is a sequence is used; TLC's
values are sequences anyway.

Each inductive invariant was checked by TLC on the instance of its run before it was proved.

**DigitalTwin_proofs.**

- `TypeCorrect` (`[]TypeOK`). The typing is not inductive: that `init_campus` writes a
  capacity needs the entity it is at to be in the version it has seen. The invariant
  `TypeInv` adds `Progress`, which ties `seen` and `todo` to the configuration.
- `OwnersWrite` (`OnlyOwnersWrite`). That a commit changes only columns its operation
  assigns is a fact about images made earlier, with any steps of others between. The
  invariant `Confined` says, for every session and every row it has loaded, that the two
  images differ only in columns owned by the operation in progress, through the inserts and
  merges too. `FlushKeepsClean` carries that through `Flush`: a column equal in both images is
  left as it is in the table, whoever wrote it meanwhile. The hypothesis that the row stays
  leaves inserts and deletes out.
- `FreshnessDecays` (`FreshnessOnlyDecays`): the clock does not run backwards, so the age of a
  timestamp grows and its class does not improve (`LaterIsOlder`); what else changes the class of an
  entity writes a timestamp, and that is a new observation.
- `TwinIsRegister` (`RegisterSpec`): every step of the twin maps to one action of
  `TwinRegister` or to a stutter (`RegisterStep`). What makes a commit, several steps after its
  SELECT, an atomic write is `SeenIsCurrent`: nobody else has changed the observation of an entity that a
  session about to write one has looked at. `Shaped` ties what the images hold to the operation in
  progress, and `FlushStamp` says what a flush then leaves: the whole of the offered
  observation, although only the columns that differ are written. The theorem is about one observing
  session (`OneObserver`); with two, `TwinMixedLabels` shows that it fails, and which part of it.
- `TwinMirrors` (`MirrorsConfig`) has no hypothesis on who loads, initialises or dies. `Mirror` says of every
  `init_campus` that nobody has overtaken (`alone`) which tables it has refreshed (`Configured`), that its images of
  them are those of the configuration in force, and that nobody has changed those columns of the rows under it
  (`SameCopies`); and that after such a one has committed the rows are up to date as long as `mirrored` holds. What
  overlapping ones leave, or a loader that dies, is not claimed to be right, and the code has nothing that would notice
  before the next `init_campus`.

**Ingestion_proofs.** For any clients, requests, configurations and crashes.

- The invariant `IInv` follows a row through its request: `Queued` (which rows are left),
  `Held` (between flush and commit the transaction holds the raw row in hand and nothing
  else), `IdsUsed` (committed ids are of judged rows, so the next one is new), `Paired` (raw rows and
  verdicts correspond), `Passed` (what is past its validation passed it under the
  configuration its verdict names), `Accepted` (what is about to be copied is committed).
- `OneVerdict` (`RawHasOneVerdict`) follows from `Paired`, by counting; `TwinShows`
  (`TwinShowsOnlyAccepted`) from `Accepted`, with `AcceptableTarget`: the twin's choice of whom to
  update tests the ids against None and validation counts them by truth, and for an accepted row both
  name the same entity; `SyncFails` (`SyncFailsOnlyAcrossReload`) from `Passed`.
- `RetriesAreSafe`: no client ever has two observations of one key accepted. `Compared` keeps,
  from the SELECT of the duplicates to the commit, that no row of the same client has come
  between. `NoDuplicates` (`NoDuplicateAccepted`) needs the hypothesis `KeysOfTheirOwn`, no two clients with
  one key, which `IngestionRace` shows to be necessary.
- `EndedBatchesAddUp` is the safety part of `BatchesAddUp`. `Opened` says of a batch under way that its row,
  committed or not, still has zero counters and the number of rows it came with, and that
  what the session has counted is what the two tables hold. A batch that has ended then has counters
  that agree with the tables and add up, or zero ones if the session is one that may leave it so (`MayEndEarly`: its
  server may die, or it sends a row too large for its columns). That it ends
  is left to TLC but for `RequestsShorten`: every server step strictly shortens the request, counted in statements
  (`Steps`), whatever becomes of each row, and only the client's next request gives a session more to do.

**Simulation_proofs.** The invariants are proved in layers, each from those before.

- `Placed`: a vehicle that is on its way or parked has a lot and a minute. With it
  `TypeCorrect`, and `ScheduleKept` (no bucket is filled after it was popped), from
  `TravelMinutes(_) >= 1` and the positivity of parking times.
- `Queues`: a queue is strictly increasing, holds exactly the approaching vehicles of its
  gate, and vehicles beyond `sequence` are untouched. `QueuesInOrder` follows.
- `BookkeepingExact` (`CountsHolders`) is a statement on cardinalities: each step adds or removes
  one vehicle to or from the holders of one lot, or none. That the vehicle taken from a queue was not
  a holder before comes from `Queues`.
- `CapacityRespected`: from the previous one, since a count is not negative, and from the check on
  the true room. The strategies' choice is nowhere used: it holds whatever they return.
- `TwinConsistent`: after a refusal `shown` is the ceiling, because the counter moves by one and
  passed it before.
- `NoVehicleLost`, with `Accounted`: the overflow count is the cardinality of the vehicles turned
  away, and approaching vehicles have no lot yet.
- `NeverTurnedAwayWithRoom`: without noise what a strategy sees is the true room, so
  a lot chosen has some and nothing is chosen only if none has.

**CampusConfig_proofs.** For any files, any number of sessions, and whoever fails or dies.

- `TypeCorrect` and `OneFile` share the invariant `Core`. That a commit leaves the rows and edges of exactly one file (`RowsAreOneFile`) is a fact
  about a transaction that began several steps earlier. `WorkFollows` says what such a transaction sees at
  each step: the file's rows in the tables written so far, the committed rows in the others (`View`).
  `OneWriter` keeps the committed rows still meanwhile, so that after the last table nothing of another
  file is left, although rows are only written and pruned table by table. The campus row's own columns are typed and
  otherwise left out of the theorem, because loads that overlap do mix them.
- `TwinWithin`: `TwinKept` adds the uncommitted twin rows of each session. A deletion is refused for a
  committed twin row and waits for an uncommitted one; an insertion waits for the deletion of its entity.
- `TwinComplete`: `TwinFollows` says that an entity without a twin row is excused by a session that will
  still seed it (it has that table ahead of it, or has it in `todo` or `inserted`) or whose last load
  failed. An entity appears only by a commit, whose session has all tables ahead of it.
- `NobodyIsStuck` and `LoadsShorten` are the safety part of `LoadsEnd`. A session that is not `Granted` its next
  statement waits for one that is loading (`WaitsForALoad`: what a load holds ends with it), so if nobody is granted
  anything, all running loads wait for one another, and among finitely many there is a smallest set that does
  (`CircleExists`), which is what PostgreSQL aborts. Each step and each abort strictly shortens a load (`Remaining`),
  and only the next file gives a session more to do. The finiteness of `Sessions` is the only hypothesis.

The conjunction of `Core`, `TwinKept` and `TwinFollows` was first checked by TLC on the instance of `Config`.

**NavigatePage_proofs.** For any gates, lots, queries, inputs and orders of answers. `Separate` says that
each part of the page keeps to its variables; with it `TypeCorrect` is proved part by part.

- `ResultsFit`: `SearchFits` adds that of the searches under way only the one of the query in the field is
  live, and that results are empty or that query's whenever none is.
- `OneJourney`: `OnePlan` says that at most one plan is under way and that it is the last one. That holds
  because the button is disabled while one is; gate and destination may change freely.

**Optimization_proofs.** For any campus, any rows other sessions write and any models.

- `RecommendedIsFeasible`: what a request has seen is never true of one moment, so the invariant
  `Grounded` collects, for each place in the request, what was true of each entity at some moment of it:
  the gate seen open was open (`GateGround`), a lot past its check was open and had room
  (`LotGround`), what was closed all along is among the closures read (`ClosedGround`), and a feasible
  candidate can be reached without passing what was closed all along (`FeasibleGround`). `Tracked` links the
  present to the history; `MoreWays` says that fewer closures leave more ways. How the best candidate is
  chosen is nowhere used.
- `ForecastsAreOnRecord`: `OnRecord` adds that a forecast about to be synced is stored.
- `TypeCorrect`, `FailsOnly` (`FailsOnlyWhenCandidateCloses`) and `NotDominatedHolds` (`NotDominated`) share
  the invariant `IInv`: the rows and tables (`Rows`, `Tables`), the request (`Flow`, `Placed`), the lot being
  assessed (`Assessing`), those already assessed (`Rating`), and the answer (`Answered`). For `FailsOnly` a lot that
  was not open when its row was read has not been open at some moment of the request (`StillNotOpen`), and a
  forecast fails only for a model whose evaluation nobody recorded. For `NotDominated` the objective
  grows strictly in its terms (`ObjectiveGrows`): weights and divisors are positive, whatever the terms are
  divided by, so the least objective cannot be worse in all of them.
- `RiskIsWithinItsParts` (`RiskWithinItsParts`): each dimension's verdict is a score or "unknown"
  (`OverflowVerdict`, `SearchVerdict`, `QueueVerdict`), and a weighted mean with positive weights of the known ones, rounded
  down, lies between the least and the greatest (`CombinedBetween`). Travel times are sums over the
  edges of a route (`RouteTakesTime`).

**CvPipeline_proofs.**

- `CountIsNear`: `Sampling` says that what is about to be posted was classified with
  confidence in a picture of the lot the loop is at; the rest is arithmetic on the annotated spaces.
- `OnlyEarnedTrust` (`TrustIsEarned`) says that one near pair of counts lies behind every `cv_auto`, and no
  more than that: not that the decision is still current (`CvAutoStale`), nor that it had many samples. `TrustInv` follows trust from a report to the decision the loop
  was constructed with, to a reading, all of which may be old by then: `Calibrating` holds what the first of the
  two SELECTs of a calibration returned, `Trusted` says that whoever is trusted has `Earned` it, and observations are never
  taken back (`EarnedForGood`). That a report earns it is `ReportIsEarned`: a mean below a bound has a
  term below it, for any number of samples.

**Sums_proofs** has the lemmas on sums over finite sets that the last two modules rest on. The
library's induction theorems take the property as an operator, which the provers cannot instantiate;
here induction over finite sets is stated with a set of sets instead (`Induction`,
`PartsInduction`), and a sum over a set is characterised by what adding an element does
(`SumUnfolds`).

**Only model-checked.** The liveness properties, because fairness is outside what the proof system
handles: `EventsHappen`, `LoadsEnd`, `CamerasAreSampled`, `RequestsEnd`, `ReportStaysVisible`, and that a batch ends
(`BatchesAddUp`). For `LoadsEnd` and `BatchesAddUp` what they need besides fairness is proved. Every other property of a passing run is stated by a theorem. Two of them are proved
under a hypothesis on who does what, `OneObserver` and `KeysOfTheirOwn`; the runs that check them satisfy it, and
`TwinMixedLabels` and `IngestionRace` show that it is needed.
That `Route` is what networkx's Dijkstra computes is not stated at all: `Route` is the definition.

## 6. Not modelled

`PROJECT.json` gives the status of each component. Left out whole:

- the **experiment runner**: it calls the simulation, which is modelled, once per strategy and seed, one
  after the other, and summarises floating-point numbers;
- **prediction training**: a sequential script over data frames, whose hazards are numerical and in pandas and
  the learners; it writes nothing the running system reads;
- the **field scripts** that generate schedules and convert surveys: sequential conversions of files;
- the **application shell**: wiring, logging, health checks. What the rest relies on, the sessions, is `UnitOfWork`.

Left out everywhere: wording of reasons, notes, quality flags, logging, layout; metrics and statistics on
floating-point numbers; the image classifier and the gradient-boosted trees (numerical libraries); the random
generator's sequence, hence reproducibility by seed; SQLite, which only the tests use and which does not
enforce the foreign keys; the first load of a campus by two sessions at once. Ids are of one campus, as in
the code, where an id of one campus collides with the same id of another.
Vehicles still queued or under way when a run ends are counted neither as parked nor as overflow by the
code; the model stops in the same state and states nothing about it.

## 7. The plan

Done, in this order: the twin with its unit of work and its abstract register, ingestion, the simulation with
its strategies, their theorems; then the configuration loader, the recommendation with navigation, prediction
and risk, the page, the cameras, and the theorems about each of them; then the proofs about ingestion, the
refinement of the register, the mirror of the configuration in the twin, the sums, and with them the rest of the
theorems about recommendations and cameras. Every safety property of a passing run has its theorem.

Next, by importance of what can go wrong:

1. The safety part of the other liveness properties, as it is done for loads and batches: in `CvPipeline`,
   `Simulation` and `Optimization` what is left of a round, a schedule or a request as a number that decreases.
2. The reads of ingestion's routes and what a batch upload answers, the only operations of a modelled
   component that are missing.
3. Prediction's features and the time split as functions over bounded series, checked against a
   reference definition of "only earlier buckets".
4. Two requests for a recommendation at once, with one registry.
