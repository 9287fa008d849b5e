# A TLA+ verification of RealitySync

RealitySync reads the databases of its customers, keeps what they state as
observations, and derives from them what is believed about each entity, with
the evidence for it and the conflicts in it. This directory models that path,
from the connection to a source and the scheduler that decides when to read to
the states, conflicts and timelines that people see, and beside it the accounts
of those people. It checks the models with TLC on small instances and proves their
main properties with TLAPS for instances of any size. Paths below are relative to
`apps/api/app` unless they begin with `docs` or `apps`.

    tlasany Sync.tla                                    parse
    tlc -workers 2 -config SyncSafety.cfg MCSync.tla    check
    tlapm SyncProofs.tla                                prove

## 1. Inventory

### How the system works

An API process serves HTTP requests and runs one scheduler loop; several such
processes share one PostgreSQL database. A request, and each attempt of the
scheduler, has a database session of its own: it begins with the first
statement, sees at READ COMMITTED what is committed when each statement looks,
publishes its writes with one commit, and is rolled back by any exception. The
ORM writes only columns whose values differ from what it loaded. Nothing else is
shared: no queue, no event bus. Components therefore interact through rows, through unique
and foreign keys, which make a statement wait for another transaction's
uncommitted rows, and through one advisory lock per source.

| Component | State | Operations | Interacts through |
|---|---|---|---|
| Ingestion (`ingestion/sync.py`, `locks.py`, `fingerprint.py`) | runs, observations, a stream's mark and freshness, the source's status | `run_sync`, `_execute`, `sync_stream`, `_finalise`, `source_sync_lock` | the source's lock, the unique keys of runs and observations, rows of streams and of the source |
| Scheduler (`ingestion/scheduler.py`) | what is due, windows, one loop per process | `find_due_sources`, `sync_due_source`, `tick`, `run_scheduler` | calls ingestion with a key that names source and window |
| Reality engine (`engine/`) | none: a pure function | `calculate`: supersession, validity, candidates, selection, evidence, conflicts | called by recalculation and by the answer for the past |
| Reality (`services/reality.py`, `services/entities.py`, `api/routes/reality.py`) | entities, mappings, states, evidence, conflicts | recalculate, decide, map, ask for the past, delete | rows of observations, the unique keys of states and conflicts, cascades |
| Source lifecycle (`api/routes/data_sources.py`) | source, config, status, credential, streams | create, update, test, discover, delete; streams likewise | the rows a sync loaded earlier |
| Credentials and encryption (`services/credentials.py`, `core/encryption.py`) | one ciphertext per source, a keyring per process | store, load, rotate | read by every connection to a source |
| Connectors (`connectors/`) | none across calls | test, discover, read a page in order | the customer's database |
| Normalization (`ingestion/normalization.py`) | none | values to JSON | called for each row |
| Timeline (`services/timeline.py`) | none | reconstruct by event or knowledge time, history of an attribute | reads observations |
| Accounts and sessions (`services/auth.py`, `api/deps.py`) | users, sessions, active organization | register, sign in, resolve, switch, revoke | every request resolves a session |
| Password reset (`services/password_reset.py`) | tokens | request, spend | revokes sessions |
| Organizations (`api/routes/organizations.py`) | organizations, memberships | create, remove a member | a membership's deletion cascades to sessions |
| Rate limiting (`services/rate_limit.py`) | attempts per identity, in Redis | check | fails open when Redis is away |
| Tenancy guard (`db/tenancy.py`) | the switch of `unscoped()` | inspects each statement | every ORM statement |
| Audit, notifications, health, dashboard, middleware, configuration | appended rows, or none | record, send, probe, aggregate | read-only or write-once |
| Web client (`apps/web`) | pages and their requests | calls of the API | HTTP |

### What is hard, and what makes each part correct

**Ingestion.** Attempts on one source overlap by design: a user's sync, the
scheduler of every process and retries. The lock is taken after the streams were
loaded and released before the commit, so the work that really is exclusive is
smaller than the sync. Rows and keys of an open transaction are invisible and
yet block. One stream may fail among several, the process may die, a stream may
be deleted or retimed under the attempt. It is correct if syncs exclude each
other and no ended attempt keeps the lock unless the database aborted its transaction; if no fact is stored twice and no row
is passed over by the cursor; if a run's counters are those of the stored rows;
if a retry gets the original; if the mark does not move backwards; and if every
attempt ends.

**Scheduler.** Several loops find the same work at the same time and have only the
run's key to agree on. Sources fail, streams come and go between discovery and
attempt, and a tick attempts only so many sources. It is correct if a window of a
source has one run, if syncs of a source exclude each other, and if a stream that
can be read is read again and again.

**Engine.** Observations arrive late, twice, corrected and invalid. It is correct
if a source has one voice, its latest; if what arrives late is inert; if an invalid word
silences and is not replaced by an older one; if a value is selected only when nobody
contradicts it; and if a disagreement is a conflict.

**Reality.** Recalculations of one entity run concurrently, each from the
observations it loaded, while syncs commit, people decide and streams and entities are
deleted. It is correct if a state, its evidence and its conflicts are of
one calculation, no mixture of two is ever seen, a disagreement is one conflict that keeps
what was decided about it, and the past is settled.

**Sources.** A request loads the row of a source, later its password, dials,
reads for as long as it takes, and writes what it concluded over whatever
the row has become; other requests edit the row meanwhile and the database drops the
session. It is correct if *connected* was found true of the config and password that are stored
unless an edit and a verdict overlapped, if configs change only by updates, if a
stored password stays readable by what was deployed last, for as long as a version of a key is given once and
updates of it do not overlap, and if nothing is read over a session without its guards.

**From cells to candidates.** Two databases hold the same fact in different types, zones
and digits. It is correct if the engine disagrees exactly where the databases do.

**Scores.** A specification of scoring is injected, and may be partial. It is correct if it only
decides between values that compete, and if support never hurts.

**Timeline.** It is correct if what is learned later does not change what was known.

**Accounts.** A session, a membership and a password live in different rows that
different requests write. It is correct if a session acts only where its user is
a member, if a sign-out is final, if an organization keeps an owner and if
a reset ends what was obtained before it, each as far as overlapping requests allow: the
properties name the overlap, and section 7 what happens in it.

**Rate limiting.** Attempts overtake each other between the clock and Redis. It is correct if no
stretch of time has more attempts that the count allowed than the policy says; attempts let pass because Redis did not
answer, and those of before it lost its data, are none of them.

All hazards are listed in PROJECT.json, each at its line.

## 2. Plan

The order in which the modules were written, most important first: ingestion, the
scheduler above it, the engine, and the states and conflicts derived with it; then
accounts, the rate limiter and sources; then scoring, the values that connectors read
and the timeline; last the contract between scheduler and ingestion. Nothing of the plan
is left. What could follow is a finer `Scheduler`, in which a sync's lock and its
commit are steps of their own as they are in `Sync`.

## 3. Modules

| Module | Models or states |
|---|---|
| `Sync` | attempts to sync one source, step by step, with the customer's tables and everything that disturbs them |
| `IngestLedger` | abstract: what ingestion promises its readers |
| `RunContract` | abstract: what a sync and its callers rely on, of one source |
| `SyncSafety` | properties of `Sync`, and the refinement mappings to `IngestLedger` and `RunContract` |
| `SyncProofs`, `SyncLedgerProofs` | theorems about `Sync` |
| `Scheduler` | the loops of several API processes over all sources |
| `SchedulerSafety`, `SchedulerProofs` | properties of `Scheduler` and its mapping to `RunContract`; theorems |
| `RealityEngine` | the pure calculation, as operators on sets of observations |
| `RealityEngineCheck` | observations arriving in every order, and properties of the engine |
| `RealityEngineProofs` | theorems about the engine, what it reads, its scores and the timeline; extends `Readings` |
| `Reality` | recalculation, decisions, mapping and deletion for one entity; extends `RealityEngine` |
| `RealitySafety`, `RealityProofs` | properties of `Reality`, theorems |
| `Records` | what a database holds, as a driver delivers it and normalization renders it |
| `Timeline` | history by event and by knowledge time; extends `RealityEngine` and `Records` |
| `Scoring` | the engine with a specification of scoring; extends `RealityEngine` |
| `Readings` | sources whose readings come to engine and timeline, and properties of both; extends `RealityEngineCheck`, `Timeline` and `Scoring` |
| `Sources`, `SourcesSafety`, `SourcesProofs` | a source and its credential under concurrent requests, and the connectors they open; properties, theorems |
| `Accounts`, `AccountsSafety`, `AccountsProofs` | users, organizations, memberships, sessions and reset links under concurrent requests; properties, theorems |
| `RateLimit`, `RateLimitProofs` | the sliding window of a policy; theorem |
| `MCSync`, `MCScheduler`, `MCReadings`, `MCReality`, `MCSources`, `MCAccounts` | values of the constants for TLC |

### Sync

An attempt is named by its pooled database connection, which it has from its
first statement to its commit; `pc[c]` says where it is and `att[c]` is its ORM
session: the attributes it loaded, the rows and counters it has not committed.

| State | Code |
|---|---|
| `table`, `now` | the customer's rows, as primary key and event time; the clock of both sides |
| `timed`, `present` | `source_streams.event_time_column` set or not; the rows of `source_streams` |
| `hwm`, `stamp` | `last_event_time`; whose run set `last_synced_at` |
| `obs`, `runs`, `health` | committed `observations`, `sync_runs` by idempotency key, `data_sources.status` |
| `held` | how often a session holds the source's advisory lock; it counts, as PostgreSQL's does |
| `aborted` | auxiliary: how many attempts on the connection ended with an aborted transaction under the lock |

| Action | Code |
|---|---|
| `LoadSource`, `FindExisting` | the caller loads source and streams; `run_sync` looks the key up |
| `InsertRun`, `InsertCollides`, `InsertOrphaned`, `Refuse` | the flush of the new run: it waits for an uncommitted run of that key, then succeeds or violates a unique or a foreign key |
| `AcquireLock`, `SkipRun` | `source_sync_lock`: granted, or `SyncAlreadyRunningError` and a run recorded as skipped |
| `OpenConnector`, `ConnectionFails`, `Unexpected` | `_execute`: the connector opens, is refused, or something else is raised |
| `OpenStream`, `FlushBatch`, `FlushRejected`, `FlushOrphaned`, `FinishStream`, `StreamFails` | `sync_stream`: one query for a stream's rows, batches inserted with `ON CONFLICT DO NOTHING` or refused by the database, the mark raised |
| `FlushRun`, `FlushStale`, `ReleaseLock`, `Commit` | `_finalise`, the flush at the end, the unlock, the caller's commit |
| `Crash`, `Recycle` | a process or connection is lost; the pool closes an idle connection |
| `DeleteStream`, `RetimeStream` | `delete_stream` with its cascades; `update_stream` of the event-time column |
| `Tick`, `SourceWrites`, `SourceDeletes` | the customer's side |

A statement that meets another transaction's uncommitted row waits: `KeyIsFree`,
`NothingPending`, `SourceRowFree` and `RefersTo` say for what.

`Unstorable` are the rows that `observations` refuses: an identifier that is blank (`external_id_not_blank`) or
longer than 512 characters, a `\u0000` in a payload. Which rows they are is a parameter. The unlock of a
transaction that a database error has aborted fails with it, so `FlushRejected`, `FlushOrphaned`
and `FlushStale` (together: `Aborts`) leave the lock on the connection; `Unexpected`, which is an exception of the
program's own, unlocks in the `finally` and does not.

`IngestLedger` is a log of facts and an answer per key. `Enter` publishes an
answer together with all its facts, none of which was in the log; `Retire` takes a
stream out with its facts and the answers about it alone. `Sync` maps a committed
observation to an entry and a committed run to an answer, so a commit is `Enter`,
a deletion is `Retire`, and everything else a stutter.

### Scheduler

`run_sync` is seen from outside: an attempt looks its key up, inserts, is told
whether the lock is free, and commits. `now`, `age` (time since
`last_synced_at`) and `keys` (scheduled runs by window) are the database; `pc`, `todo`,
`item`, `reading` are one process's loop: `Discover` is `tick`'s query and its cut to
the first sources by id, `Lookup` and `Vanish` load what is left of the streams,
`Reuse`, `Collide`, `Contend`, `StartRun`, `Finish` and `Raise` are the ways an attempt
goes, `Restart` a process. Users sync, configure, delete, switch and repoll
streams meanwhile; tables break and are repaired. Time is cyclic, with a
cycle that every interval divides and at whose end the keys of past windows are
forgotten: in the code they stay, and no later attempt can name them.

### RunContract

What a sync is to whoever starts one: `recorded` are the keys with a committed run,
`claim` the key each attempt has inserted, `working` who works on the source. `Begin`
claims a key that nobody has, `Work` and `Rest` take and give up the source, one at a
time, `End` gives the key up and records it or not, `Skip` records a key without
work, `Forget` loses runs with their stream.

`Sync` and `Scheduler` are both mapped to it, and that is what joins them. In `Sync` an
attempt claims its key from the flush of its run to its end and works from the
lock to its release, so that `Begin`, `Work`, `Rest` and `End` are four
steps. In `Scheduler` there is a contract for each source: a loop that runs claims its
window's key and works as long, a user's sync has a key of its own, so `StartRun` is
`Begin` with the lock, `Finish`, `Raise` and `Restart` are `End`, `Contend` is `Skip`, and a key
that `Tick` takes for forgotten goes as one deleted with its stream. Two
things `Sync` does and the contract allows are not in `Scheduler`: a lock that is
free before the run is committed (`Rest` before `End`), and nobody working
for as long as a lock left on a connection is in the way (section 7).

### RealityEngine and RealityEngineCheck

`Current`, `Eligible`, `Candidates`, `Selects`, `Status`, `Value`, `Role`, `Findings`
and `Calculate` are the steps of `calculate` in `engine/engine.py`, for the scoring
specification with which the application runs, which is unavailable. `Earliest`
and `Latest` are the moments a state is valid from. In `RealityEngineCheck`
observations arrive one by one, in any order of event time, ingestion time and
id, so a step compares the engine's answers before and after an arrival.

### Reality

A fact is an observation that may be made. `stored` are the committed
ones, `arriving` those of open syncs, `mapped` the rows that belong to the entity;
`states`, `evidence` and `conflicts` are the tables of that name. A recalculation is
`Begin` (its `as_of` is taken), `Load`, `Write` or `Block` (its deletes and inserts,
which wait for another request that has replaced a state of the same attribute),
`Commit` or `Fail`. A request that waited fails when the other commits, by the
unique key of states. `Persisted` is `_persist_conflicts`: a finding is matched with a
conflict by its fingerprint, the rest lose their link. `AsOf` is the answer for a past
moment and writes nothing.

### Records, Timeline, Scoring and Readings

A fact is a cell: a type, a content and a scale. `Driver` is what psycopg or aiomysql makes of it,
in the zone of the session; `Coerce` is MySQL's `_coerce`, `Normalize` is `normalize_value`,
`EventTime` and `Resolved` are `_to_record` and `_resolve_event_time`, and `Observe` gives the
observation of a row. `reconstruct` and `attribute_history` are those of
`services/timeline.py`, on a page bounded as there.

`Scoring` is what `calculate` does when the specification it is given does not raise:
`observation_weight` and `Weighable` decide whether anything is weighted at all,
`WeightedCandidates` and `SortKey` are `build_candidates` with its ranking, `ContestedState` and
`ScoredStatus` are what a thin margin means, `Ceiling`, `Base`, `apply_penalties` and
`calculate_confidence` make the score. A specification is a parameter, as it is in the code: the
names of the sub-formulas it supplies and functions for them. What the application supplies today is
nothing, which is `RealityEngine`.

In `Readings` the observations that RealityEngineCheck receives are those of rows of two
PostgreSQL sources, in sessions of different zones, and of a MySQL source.

### Sources

| State | Code |
|---|---|
| `source` | the row of `data_sources`: kind, config, status, error |
| `versions` | per deployment, the version its key has in the settings; deployment g has the keys of 1 to g |
| `credential` | the row of `source_credentials`: the password, the deployment whose key encrypted it, the version in the row |
| `request` | what each request has loaded, dialled and found |
| `untried` | auxiliary: since the last verdict an edit and a verdict overlapped |

| Action | Code |
|---|---|
| `BeginCreate`, `Create` | `create_data_source`: the look-up of the name, then row and credential |
| `BeginUpdate`, `StorePassword`, `Update`, `Delete` | `update_data_source` over the row it loaded, `store_credentials` in it, `delete_data_source` |
| `BeginUse`, `LoadPassword` | `test_connection`, `discover_schema`, `trigger_sync` load the row; `open_connector` the password |
| `ConnectPostgres`; `ConnectMysql`, `Guard`, `GuardFails`; `Refused` | `connect`: guards as options of the connection, or as statements after it; a session that is not guarded is closed |
| `TestPostgres` ... `IterateMysql`, `ReadFails`, `Dropped` | what is read over the session, and its end in between |
| `Conclude`, `Abandon` | the verdict is written and committed; a request ends without |
| `RotateKey` | a deployment with a new active key, under the next version or the one it had, that lists the old keys as previous |

`Written` is the ORM's flush: of the row, only the columns set to another value than was
loaded. `Replaced` is the same flush of a credential: ciphertext and nonce are always new, the version may be what was
loaded and then stays what another update has written meanwhile. Which deployment's process encrypts or decrypts is
chosen anew at each step, since old processes serve until they are stopped. `Keyring` is `CredentialCipher`: a previous
key whose version is the active one is skipped, and of two previous keys with one version the later stays.

### Accounts

`users`, `organizations`, `memberships`, `sessions` and `tokens` are the tables; `request` what each
request has loaded and flushed. A sign-in is `Authenticate` (the hash is verified), `IssueSession` (the
flush, whose foreign keys hold the membership) and `CommitLogin`; a signed-in request is `ReadSession`
(`resolve_session`) and then `Read`, `Work`, `Logout`, `Switch`, `CreateOrganization` or `Remove` with their
commits; a reset is `RequestLink`, `BeginReset`, `CommitReset`. `Touched` is the
throttled `last_seen_at`, written by whichever of these commits. `UserRowFree`,
`SessionRowFree` and `MembershipRowFree` say which row locks make a statement wait. `since` and
`excused` in sessions and links, and `resets`, are auxiliary: they remember how many resets were over
when a session was obtained and whether one was under way with it.

### RateLimit

`log` is Redis' sorted set of one policy and identity. `Execute` is the pipeline of `check`: evict, count, record;
`Admit` and `Refuse` its answers, `Degrade` the answer while Redis is away, `KeyExpires` and `RedisRestarts` what
Redis does by itself. An attempt carries the clock of its process, at most `Delay` old.

## 4. What the runs check

| Run | Instance | States | What it shows |
|---|---|---|---|
| `SyncSafety` | 2 attempts, 2 keys, a timed stream of 2 rows, one of them refused in its second version, limit and batch 1, 2 moments | 305 388 | whatever crashes, raises, is refused, deleted or changes: one sync at a time, no lock on an ended attempt but by an aborted transaction, no fact twice, no row behind the cursor, exact counters of clean runs |
| `SyncStreams` | 2 attempts, 2 streams, one with event times, runs of both or of one | 304 964 | a stamp is a completed run's; attempts never wait in a circle, and one that has what it needs can go on |
| `SyncProgress` | 2 attempts, a stream whose event-time column comes and goes and which is deleted | 162 822 | every attempt ends; the ledger while the meaning of rows changes |
| `SchedulerWindows` | 2 processes, a source of 2 streams with intervals 1 or 2, streams configured, repolled and deleted | 650 032 | a window has one run; the loops treat every source as the contract of a sync says, so its syncs exclude each other |
| `SchedulerServed` | 2 processes, 2 sources, 2 sources a tick, interval 2, outages, users' syncs, streams switched off and on | 267 584 | a readable stream is read again and again |
| `Readings` | 3 observations of 3 sources (2 zones, 2 kinds), a number in two scales and a moment, 2 moments, calculated at 2 and 3, with 2 specifications; invalid ones state the moment | 50 653 | one voice, unanimity, silence, inert backfill, corrections; disagreement is real; scores only settle what competes; support helps; what was known stands |
| `RealityStates` | 2 requests, 3 facts of 2 sources, 2 attributes | 307 444 | state, evidence and conflicts are of one calculation; a disagreement is one conflict |
| `RealityHistory` | 1 request, the same facts, mapping, deletion, decisions | 55 401 | decisions stand; the past changes only for named reasons |
| `Accounts` | 2 requests, 3 people of whom 2 own an organization, 2 sessions, a link | 674 960 | sessions belong, a sign-out is final, the last owner goes only by two removals at once |
| `Resets` | 2 requests, 1 person, 2 sessions, 2 links, 2 moments, a raised hash cost | 1 052 373 | a reset ends what was there before it |
| `RateLimit` | 2 of 5 attempts in a window of 3, one identity, a delay of 1, 7 moments | 29 155 | no stretch of time has more attempts that the count allowed |
| `Sources` | 2 requests, 2 databases with host, user and password of their own, both kinds, 2 streams, 2 deployments with one version or two | 861 833 | *connected* was tried, configs change by updates, passwords are lost only as named, sessions guarded |

**Why the bounds are enough.** Every hazard listed in PROJECT.json is a meeting of
two attempts, processes or requests, and two are there. Two keys allow a retry and
a rival. A limit of one row with two rows makes a read stop short, which is
where the cursor matters; two moments make rows of the same and of a later time. A
third stream or row would repeat the second, as streams are handled one by one
and rows compared in pairs. Two streams of a source and intervals of which one
divides the other give windows that contain each other, streams that are due alone and
together. Three facts are the least with which a source speaks twice
and another once, so a disagreement can begin and end. Two databases that share
neither host, user nor password make every mixture of two configs, or of a config and a
password, one that neither accepts. Two owners and a third person are the least for owners who
remove each other; a link and a session too many tell what a reset ends from what it
spends. In `Readings` a number in two scales and a moment in two zones are the renderings that
could differ, and each source may speak three times or once; a cell may be NULL and a column of
another type in the instances of section 7. TLC's instances are
small in time, and the theorems of section 6 have no bound but the named ones: `MaxTime`
caps the clock of `Sync`, `Reality`, `Accounts` and `RateLimit`, `MaxTries` the attempts of the
last, `MaxLeft` the locks left on a connection with which an attempt still begins, `MaxKeys` the deployments of a source,
`MaxTimeline` is the code's page, `Digits` and `Unit` are the precision of scores, and `Cycle` closes the clock of `Scheduler`.

`Sources.cfg` has two constraints. `PostgresAlone` follows requests about a PostgreSQL source one at a time: they have the steps of
those about a MySQL source, whose guards come in a step of their own besides, and about which all overlaps are explored.
`RotatedApart` follows, once a second key is deployed, only requests that create, store or load a password. Nothing is lost by it: from the password's loading on a use of the source reads neither version, key nor keyring, so
what it does after a rotation it also does without one, where everything is explored; and an edit of host
or user reads no keyring, and writes the password only as an edit of the password alone does. PasswordStaysReadable
and the other properties of that run are proved without either.

**Symmetry** is used for connections, keys, processes and requests in runs without
liveness; rows and streams are numbers because their order matters.

**Deadlock** is checked in `SyncSafety`, `SyncProgress` and both scheduler runs. In
`SyncStreams` the environment may delete both streams and then nothing
is left to do, so SomeoneProceeds says what deadlock freedom would: while an attempt
is under way, one can go on. In `Reality` all facts may be in, the clock
at its end and the entity deleted; the engine's observations run out, and so do the
rate limiter's attempts. In `Accounts` it is checked: a request can always be
abandoned or begun. In `Sources` the source may be deleted for good.

## 5. Fairness

`Sync!FairSpec`: an attempt is a coroutine of a running event loop, so it takes its
next step unless the database keeps it waiting (weak fairness of `Proceed`).
Its insert of a run may find the key free and taken alternately, as
other attempts at that key roll back; PostgreSQL wakes a waiter when the
transaction it waits for ends, so the insert is not passed over for ever
(strong fairness of `Insert`). Nothing obliges anybody to start an attempt, a fault to
happen, a crash to spare anyone, or the customer to write.

`Scheduler!FairSpec`: `run_scheduler` loops for ever and catches whatever an attempt
raises, so each process's pass goes on (weak fairness of `Pass` or `Raise`); the
clock moves; a user's sync ends, which is AttemptEnds of `Sync`. That a pass does
not last a whole cycle of the clock is a guard of `Tick`: it is an assumption, which
in the deployment is that a pass over at most five sources
(`sync_scheduler_max_sources_per_tick`) ends within the longest interval.

`Reality`, `Accounts`, `Sources` and `RateLimit` have no liveness: a request is made or not, and a
waiting one is told.

## 6. Proofs

| Module | Theorem | For all |
|---|---|---|
| `SyncProofs` | TypeCorrect, MutualExclusion, OnlyAbortsLeaveLocks | connections, keys, finite sets of streams and rows, limits, events |
| `SyncLedgerProofs` | NoDuplicates, ImplementsLedger, FreshnessIsVouched; RunsAreAccounted (no deletions); RowsStayInReach (no late rows, no retiming) | the same |
| `SyncLedgerProofs` | AttemptsNeverWaitInACircle, AttemptsOnlyMoveForward, SyncKeepsContract | the same |
| `SchedulerProofs` | SchedulerTypeCorrect, OneRunPerWindowHolds, OneSyncPerSourceHolds, SchedulerKeepsContract | processes, finite sets of sources, streams, intervals |
| `AccountsProofs` | AccountsTyped, SessionsAlwaysBelong, SignedOutSessionsStayOut, LastOwnersStay, ResetsEndAccess | people, organizations, sessions, links, requests, lifetimes |
| `RateLimitProofs` | WindowHoldsInAnyWindow | limits, windows, delays, attempts |
| `SourcesProofs` | SourcesTyped, PasswordsStayReadable, ConnectedIsOfWhatWasTried, SessionsStayGuarded, ConfigChangesByUpdates | databases, passwords, requests, retries, deployments and versions of keys |
| `RealityProofs` | RealityTyped, StatesAreOneCalculation, ContestedHasConflict, DisagreementRecordedOnce, DecisionsAreKept, PastAnswersAreSettled | facts, payloads, streams, mappings, recalculations |
| `RealityEngineProofs` | OneVoicePerSourceHolds, BackfillIsInertHolds, CorrectionCountsHolds, InvalidSilencesHolds, UnanimousOrContestedHolds, DisagreementIsConflict | sources, values, numbers of observations |
| `RealityEngineProofs` | DisagreementIsRealHolds, ScoringOnlySettlesHolds, KnownStandsHolds | sources and their zones, cells, specifications of scoring, moments |
| `RealityEngineProofs` | SupportHelpsHolds, RankingNeverTiesHolds | the same, with reliabilities, qualities, authorities and ages |

**Assumptions**: ConstantsAssumption, SchedulerAssumption, EngineAssumption, ReadingsAssumption,
ScoringAssumption, SourcesAssumption and AccountsAssumption each with a NoneIsNoRow, RealityAssumption with NoStateIsNoRow, and
RateLimitAssumption, in the modules that declare what they are about. They say that numbered things are
numbered, sets that are counted are finite, what stands for no row is none, what arrives at the engine
was read from a source, and settings are positive where the code's validation demands it.
ScoringAssumption is about the ranking: what is declared of a source or an age is a number (`Decimal` in the
code), and two values with one place in the last order are one value, because that order is of
`value_key`, by which the engine tells values apart in the first place.

Three theorems have a hypothesis besides. RunsAreAccounted takes that no stream is deleted: the cascade removes
observations that a run of several streams has counted and keeps the run. `SyncSafety.cfg` has one stream, with which its runs go. RowsStayInReach takes that no row is written with an event time
already past, which no cursor on event times can find, and that no event-time column is
changed (section 7), which is the environment of the run.
DisagreementIsRealHolds is about the types that both drivers deliver in the same class, and
MySQL's sessions in UTC, since MySQL does not tell their zone: KindsAgree of section 7 says what happens to the other types.

**Sync.** Types alone are not inductive: counters are cardinalities, so `TypeInv` adds
that tables and feeds are finite, and that an attempt under way has a key and its
current stream among those it was asked for. `LockInv` is what the lock needs: an
attempt between acquisition and release holds it at least once, and nobody else
holds it then. An ended attempt may still hold it (section 7), and the proof
does not need the contrary: only that a holder keeps others out. LocksAccountedFor is inductive with the types: the lock counts one for
the attempt under it and one for each aborted transaction, and only closing the connection clears both. For uniqueness
the only step that adds rows is `FlushBatch`: what it adds is not visible to it, and
what is not visible to it is excluded by the wait, `NothingPending`. For the ledger,
`KeyInv` says that the key of an open transaction has no run and no other open
transaction; `OwnInv`, that uncommitted rows carry their attempt's key and are of
the streams it was asked for; `Traced`, that an observation's run is recorded, and
is about its stream if it is about one only. With these a commit is `Enter` and a
deletion is `Retire`.

The other statements about `Sync` need more of what an attempt has in memory.
`PhaseInv`: the status of an attempt follows from
where it is and from how its streams ended. `StampInv`: a stamp is of a recorded run that
completed; a run that goes with its stream takes only that stream's stamp, since it was
about it only. `CountInv`: the counters of an attempt without failed streams add
up, and what they say was created is the number of its uncommitted rows, which is why `NewFacts`
must not count what it does not add. `ReachInv` carries NothingOutOfReach into the attempts: a row
that neither is stored nor is about to be is at or after the mark in memory and, in the stream that
is being read, in the feed or at or after everything read and fetched. The last part is FirstOrdered: a limited read
leaves out nothing earlier than what it returns. It is what lets a stale mark be
written (section 7): what an older mark moves back, a later read finds again.

AttemptsNeverWaitInACircle is a case analysis of who waits for whom. An insert waits for a key of an open
transaction, which is past its insert; a batch waits for rows, and the source's row waits for its
writer. Whoever waits for rows holds the lock, so by `LockInv` two never do, and whoever holds
uncommitted rows or the source's row without the lock only commits. The rest is that there is something to do: a stream
to open has a least one, a mark a greatest time, because both are finite.
AttemptsOnlyMoveForward looks at each step of an attempt once; since streams, stages and rows are finite it
is the measure that an argument for AttemptEnds would descend on, which fairness then drives.
For SyncKeepsContract `KeyInv` gives that a key is free when it is claimed and `LockInv` that nobody works when
work begins; every other step is a stutter of the contract or its `Forget`.

**Scheduler.** `Itemised` says that a running attempt has an item and a source; one run
per window is preserved because a run starts only when no committed run and no
attempt in progress has its window, and is recorded as it stops being in progress.
OneSyncPerSource is inductive with the types: whoever starts, scheduled or manual, has seen
the lock free. SchedulerKeepsContract needs `Itemised` and then only that a step moves one loop or one user: the
claims of the others stay (OthersKeep, ClaimChanges), and a source that the step is not about has a
stutter, or a `Forget`.

**Engine.** `Newer` is a strict total order on observations with distinct ids, so
a source has one current observation at most (`OneCurrent`), which gives one
voice; a superseded arrival leaves the current ones as they were, which gives inert
backfill. `Given` (finite, distinct, well formed) is the invariant.
DisagreementIsConflict shows that with one voice per source every conflict of values
is a disagreement of sources. KnownStands follows from the two axes alone: what is learned later is not
in the set that is cut. For DisagreementIsReal, CanonicalOfShared computes the text of a
fact from type and content only, the zone cancelling, and TextTells inverts it; OneCandidate
makes a shared candidate the same as equal values. For ScoringOnlySettles no weight
is computed: what is unanimous is ranked alone (RankedAlone), whatever it weighs, and what competes is ranked
in at least two places (RankedAll), so that it is contested in either calculation. RankingNeverTies follows from the
last component of the sort key, which is injective. SupportHelps compares sums of weights over sets of sources. A
sum is a fold of which only two facts are needed, that of the empty set and that of a set with one element
more. Both come from the library's definition of the fold, whose function exists and is unique: a least finite set
for which it were not, or did not, cannot be, since inclusion among finite subsets is well-founded. The candidate of the believed value then gains a source and a weight that is not negative, every
other candidate has the sources it had or fewer, and a rank is lexicographic.

**Reality.** `RealityInv` proves the parts of the belief together. `Grounded` says that
evidence is of committed observations that state the attribute, `WritersAnchored` that what an uncommitted recalculation
refers to cannot go before it commits, and `Finite` that what is counted is finite, though
facts may be without bound. OneCalculation then holds because `Commit` replaces a state
with its evidence from one set of observations, and no deletion takes from that set what `Unharmed`
does not name. ConflictsMatchStates needs it, and the engine's lemmas: a
state is contested exactly if there are findings. OneConflictPerDisagreement is what makes
`Persisted` keep a conflict, its status included, instead of adding one. PastIsSettled needs
only that what a sync ingests now is later than every past moment.

**Sources.** A request carries what it loaded and what it learned. `RequestsOK` gives
the record of each kind of request its type; in `UseRequest` a session is never "bare" when rows are read.
`Vouched` says that a request with a session, one that has read and one that is about to
say 'connected' was let in with the config and the password it carries. What is
said of the row is then true of it, or `untried` says that an edit intervened. PasswordStaysReadable rests on `Sealed`: a
password carries the version of the key it is encrypted with. What the newest keyring reads is sealed (ReadableIsSealed), a
rotation leaves it sealed, and so does an update that replaces the password it had loaded, since then the version in the row
is that of the new key whether it is written or not (UpdateSeals). What is sealed is missed by the newest keyring only if a later key has
its version (SealedIsReadable).

**Accounts.** Requests hold what they loaded, so types alone say too little: `RequestsOK` gives the record
of each kind of request its type, and `Anchored` that the rows it refers to existed and
still name the same user. On it rest four invariants. `Belonging` adds to SessionsBelong the sessions that are
flushed and not committed: their memberships are held by the foreign key's lock, which `MembershipRowFree`
makes a removal wait for. `Fresh` says that a request in flight that will write a session loaded it while
it was open or does not change its status, which makes a sign-out final. `Witnessed` says that a removal of an owner in flight found
another one, different from its target. `Covered` says of every open session, unspent link and sign-in under way that it is from the
present count of resets, or that a reset was under way with it, or that a reset now in flight has it on
its list: the last is what makes the end of a reset harmless.

**RateLimit.** `Remembered` says that an admitted attempt is in the log, or older than every clock that may still execute: then the
count of an attempt includes all that were admitted within a window of it, and admitting one more keeps `WindowHoldsAlways`, the
statement for every moment and not only those up to now.

**Model-checked only**: AttemptEnds and Served, which are liveness, and of SomeoneProceeds that who is ready is
ENABLED: both are beyond the prover. Its other half is AttemptsNeverWaitInACircle. **Proved and in no cfg**, though TLC
finds no counterexample in the instances named: OneSyncPerSource (`SchedulerWindows.cfg`), which the contract implies,
OnlyForward and Sync's KeepsContract (`SyncSafety.cfg`, `SyncStreams.cfg`), and RankingNeverTies (`Readings.cfg`).

## 7. Where the code and what is said of it differ

The following statements are refuted, each by TLC in the instance named, with the
property put in the place of those of the cfg, and `CHECK_DEADLOCK FALSE`:

| Property | Instance | Code | Statement |
|---|---|---|---|
| MarkNeverMovesBack (PROPERTY) | `SyncSafety.cfg`, `Limit = 2` | `ingestion/sync.py:227`: the maximum is taken with the mark loaded before the lock was; an attempt that read less and commits later writes an older one | :225: "Never moves backwards" |
| LockFreeWhenQuiet | `SyncSafety.cfg`, `SyncStreams.cfg` | `ingestion/locks.py:82`: when the database refuses a row, or a stream is deleted under a sync, the insert aborts the transaction, the unlock fails in it, and the pool's rollback keeps session locks | :79: it "must run even when the sync failed" |
| PresentTense (PROPERTY) | `RealityStates.cfg` | `services/reality.py:149`: observations are loaded before the state is locked, and an older calculation replaces a newer state | `models/reality_state.py:117`: "this table is the present tense" |
| DerivedFromObservations (PROPERTY) | `RealityHistory.cfg` | `services/reality.py:171`: the state of an attribute that nothing states any more is not visited | `models/reality_state.py:24`: it "must come out identical" when recomputed |
| EveryRunAccounted | `SyncSafety.cfg` | `ingestion/sync.py:350`: a failed stream's result has zero counts, its inserted batches stay | `models/sync_run.py:66`: every row read is created or skipped |
| RetryObservesOriginal | `SyncSafety.cfg` | `ingestion/sync.py:284`: a concurrent retry gets an IntegrityError | :262: it "observes the original rather than starting a second sync" |
| LockCoversWork | `SyncSafety.cfg` | `ingestion/locks.py:82`: released before the commit | `docs/phase-3-postgres-connector.md:220`: "no window where the lock says one thing and the database another" |
| RereadInsertsNothing | `SyncProgress.cfg` | `ingestion/sync.py:112`: without an event-time column the time of reading is part of the fingerprint | `docs/phase-3-postgres-connector.md:209`, `ingestion/sync.py:12` |
| NothingOutOfReach | `SyncProgress.cfg`, `Pks <- TwoRows` | `api/routes/data_sources.py:858`: the mark survives a change of the event-time column | `connectors/postgres/connector.py:471`, `models/source_stream.py:132` |
| AnsweredWorkWasTried | `SchedulerWindows.cfg` | `ingestion/scheduler.py:173`: a window is the source's, not the stream's | :203: a new stream is "due immediately" |
| DisabledIsNotRead (PROPERTY) | `SchedulerServed.cfg` | `ingestion/scheduler.py:248`: the streams are loaded without looking at `enabled` | :249: "Deleted or disabled between discovery and now" |
| Served | `SchedulerServed.cfg`, `PerTick = 1` | `ingestion/scheduler.py:294`: always the smallest ids first | :310: one unreachable database "must not stop every other tenant from syncing"; `docs/release-review.md:135` describes it |
| DisagreementIsAPattern | `Readings.cfg` | `engine/conflicts.py:163` | `models/conflict.py:50`: "a pattern, not a single divergence" |
| Explained | `RealityStates.cfg` | `models/reality_state.py:267`: evidence is deleted with its observation, the state stays | :238: the engine never writes a claim without evidence |
| AnswersRepeat (PROPERTY) | `RealityHistory.cfg` | `services/entities.py:303`: `ingested_at` is the time of reading, visible only at the commit | :279: only what "had already been *ingested* by that moment": what is answered and what was known then are the same |
| OneOpenConflict | `RealityHistory.cfg`, `What <- Disputes` | `models/conflict.py:107`: unique by fingerprint, which names the values | :103: "One open conflict per (entity, attribute, type)" |
| HistoryIsComplete | `Readings.cfg`, `Cells <- WithNull` | `services/timeline.py:276`: the page is cut before it is filtered by the attribute | :260: "Every observation that stated a value for `attribute`" |
| KindsAgree | `Readings.cfg`, `Cells <- EveryType` | `connectors/mysql/connector.py`, `_coerce`: binary values are text or hex where PostgreSQL's are base64, booleans are integers | `ingestion/normalization.py:19`: "every connector produces identical observations for identical values" |
| OfferedIsUsable | `Readings.cfg` | `connectors/postgres/connector.py:552`: a DATE is no event time, so every row of the stream fails or falls back | :47: it is offered as one |
| FingerprintStands | `Readings.cfg` | `engine/conflicts.py:40`: the candidates are listed by rank, which changes as observations age once scores are there | :45: "not over weights, timestamps or scores" |
| ConfidenceOfTheWinner (PROPERTY) | `Readings.cfg` | `engine/engine.py:116`: freshness and quality are averaged over all that is eligible | :155: "Confidence over the winner's distinct sources" |
| OwnerAlways | `Accounts.cfg` | `api/routes/organizations.py:216`: the other owners are counted without a lock, and two may remove each other | :182: "An organization must keep at least one owner" |
| PasswordByReset (PROPERTY) | `Resets.cfg` | `services/auth.py:244`: a sign-in that rehashes the password it verified writes it over the one a reset has set | `services/password_reset.py:16`: after a reset it is the new password that signs in |
| LinkWorksOnce (PROPERTY) | `Resets.cfg` | `services/password_reset.py:112`: the link is looked at without a lock, and two requests spend it | :10: "A token is single use" |
| NoneOutlivesReset | `Resets.cfg` | `services/auth.py:430`: only sessions that are committed are found | `services/password_reset.py:16`: "Resetting a password ends every session" |
| UseIsNoted (PROPERTY) | `Resets.cfg` | `services/auth.py:390`: set in every request, committed only by those that commit | `models/session.py:111`: it "drives the idle timeout", and is "written at most once per touch interval" |
| ConnectedIsVerified | `Sources.cfg` | `api/routes/data_sources.py:580`: the verdict is about the row that was loaded | `models/data_source.py:51`: "telling someone a source is connected when nothing has ever reached it" is what the statuses are to prevent |
| ConnectedShowsNoError | `Sources.cfg` | :580: only the columns that changed are written, so the rows of two verdicts mix | :580: status and error are set together |
| PasswordReadable | `Sources.cfg`, `Versions = {1}` | `core/encryption.py:133`: a previous key with the version of the active one is skipped, and the version is 1 unless it is set (`core/config.py:126`) | :18: "a rotation is: add the old key to the previous list, set the new key active"; `.env.example:136` adds "bump the version" |
| CarriesItsVersion | `Sources.cfg` | `services/credentials.py:123`: of two updates by processes of different deployments, the later writes its ciphertext, and its version only if that is not the one it had loaded | `core/encryption.py:18`: "Each stored record carries the key version that produced it" |
| ReadableByAll | `Sources.cfg` | `services/credentials.py:71`: a process keeps the keyring it began with, and does not read what a newer one wrote | `core/encryption.py:17`: "Rotation without downtime" |
| OmittedStays (PROPERTY) | `Sources.cfg` | `api/routes/data_sources.py:400`: the config is one column, copied from what was loaded | `update_data_source`: "Partial: omitted fields are left alone" |
| RetryAfterIsHonest (PROPERTY) | `RateLimit.cfg`, `Delay = 0` | `services/rate_limit.py:111`: refused attempts are recorded and keep the window full | :157: "told when capacity actually returns" |

## 8. Abstractions, and what is left out

- A row is its primary key and version; payloads, names, texts, severities and scores
  are absent, and two values are equal when the code's canonical rendering is.
- Without an event-time column `sync_stream` uses the time of reading, and so
  does `Observe`. The connector reads one statement's snapshot, so `OpenStream` takes all
  rows of a stream at once.
- Whatever the customer's database refuses, drops or times out is a failure that may
  happen at the connection or while rows are read, and no cause is told from another.
- Every observation is valid in `Reality`, because `to_engine_input` sets
  `validation_passed` so; `RealityEngineCheck` and the proofs have invalid ones too.
- `find_due_sources` leaves out sources whose status is DISABLED; no code ever
  sets that status, so it is absent.
- Severities, the scores of conflicts and the context of penalties are absent from `Scoring`, whose numbers have fewer
  digits than the code's; `numeric_divergence` only words a summary.
- In `Records` a rendering stands for its text: two are equal exactly if the texts are. Floats, durations,
  identifiers, addresses, arrays and documents are left out.
- In `Sources` a host and a user stand for the config, of which they are the parts that a partial update may leave
  out; a test and a discovery are one kind of inspection until the statement they send; times of the last
  connection and error are absent. A catalog that a test cannot read is a warning. A deployment lists every key
that was active before it as a previous one; keys are of the right length, as a process without them does not start.
The re-encryption in the background that `core/encryption.py:20` speaks of has no code.
- In `Accounts` cookies, tokens and CSRF values are the rows they name; slugs are absent, a taken one being a request
  that ends without a commit; `is_active` is absent, as no code writes it; members other than founders are there at the
  start, as no route adds one; a refusal by the rate limiter comes before anything is loaded.
- In `RateLimit` one policy and identity is looked at, as keys are separate.

**Not modelled.** The audit log and notifications only append or send; the dashboard, health and system endpoints,
lists and answers only read, each by its own statement; middleware and schemas handle one request at a time; the tenancy guard
inspects the syntax tree of one statement; migrations run once, alone; the web client keeps nothing that outlives a
page. None of them has a step of another actor to meet. PROJECT.json gives every component's reason under `components`.
