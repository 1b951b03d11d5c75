# Verification of the server management service

TLA+ models of the server management service, the TLC configurations that check
them on small instances, and theorems about them with proofs that TLAPS checks.

The service keeps a registry of servers and watches whether they answer. An API
process serves gRPC and REST; a monitoring process pings the servers; a daily
scheduler asks for reports. PostgreSQL is the source of truth, Redis holds a copy
of the servers for the monitor (and locks, revoked sessions, rate-limit windows),
Elasticsearch stores the ping observations. There is no transaction that spans two
stores and, in the code as it is called, none that spans two statements of one
store (`WithTx` has no caller). What goes wrong in such a system is what happens
between two calls, so the models take one database statement, one Redis command,
one ping as one step, and let every other actor run in between.

## 1. Inventory

| Part | State | Operations | Talks to | What is hard |
| --- | --- | --- | --- | --- |
| server stores | rows of `management_schema.servers`; `server:info:{id}`, `server:all_ids` | one SQL statement or Redis command each | everything below | no atomicity across the two stores |
| server management service | goroutines of the API | CreateServer, UpdateServer, DeleteServer, ImportServers, SearchServers, ExportServers | stores | dual write, check-then-insert, read-modify-write of status and counter, Redis errors that are only logged |
| monitoring worker | lock key, cycle of each instance, id channel, workers | runCycle, Run, processServer, Ping, Evaluate | stores, observation log | lock with a TTL, two writers of status, counters kept in two places |
| observation log | buffered channel, batch | LogObservation, flusher, flush, Shutdown | Elasticsearch | dropped, duplicated and lost observations, close during use |
| uptime and report numbers | none | CalculateUptime, percentage, healthLabel | Elasticsearch, PostgreSQL | counts taken one after the other |
| reporting | rows of report requests, job queue, workers | RequestReport, EnqueueReport, processReport, Start, Stop | PostgreSQL, notification | bounded queue, shutdown order, reports left PENDING |
| notification | none | Send | SMTP | sent but reported as failed |
| daily scheduler | cron | the daily job, Start, Stop | reporting | a second producer, shutdown |
| identity | sessions, refresh tokens, revoked sessions in Redis | Login, Refresh, Logout, LogoutAll | PostgreSQL, Redis | rotation in three statements whose errors are ignored, races with logout |
| request pipeline | none | interceptors and REST middleware | identity, rate limiter | order, what passes when Redis is down |
| rate limiter | windows in Redis | Allow, PolicyForMethod | Redis | fail-open, several checks per call |
| process lifecycle | servers, signal contexts | Run, Shutdown of the three processes | all | drain order, contexts cancelled early |
| migration, seeding, configuration, logging | none over time | start-up only | PostgreSQL | - |
| failure simulator | set of blocked addresses | block, unblock, flapOnce | nftables | bookkeeping of the blocked set |

`PROJECT.json` lists every part with its files and status, and under "hazards" the
places in the code where a test would hardly reach what can go wrong.

## 2. Plan

In the order of importance: the dual write and the monitor come first because every
other part reads what they leave behind.

1. **Core**, done: `ServerStores`, `ServerManagement`, `Monitoring`, their composition
   `ServerSystem` (section 3).
2. **Import**, done: `ServerImport`, over the same stores and beside the same requests.
3. **Identity**, done: `AuthSessions`, and `SessionLifetime`, which it implements.
4. **Reporting**, done: `ReportingWorker`, with the scheduler, the notification and the
   shutdown of both processes.
5. **Observation log**, done: `ObservationLogger`, `ObservationLog`, which it
   implements, and `UptimeReport`, which reads what it writes.
6. **Proofs**, done: every invariant, action property and refinement that a passing run
   of 1 to 5 checks (section 5).
7. **Request pipeline**, dropped: see section 6.
8. **Pure operators** of search, report figures and simulator: the health label and the
   uptime figure are part of `UptimeReport`, the rest is dropped (section 6).

## 3. The core

### Modules and how they correspond to the code

`ServerStores` - `rows` is a function from stored ids to name, IPv4, status and
consecutive failures; `hash` a function from ids that have a `server:info` hash to
address, status and retry count; `allIds` the Redis set. Each operator is one call:
`Insert`, `UpdateRow`, `DeleteRow` are `repo.Create`, `Update`, `Delete`;
`UpdateServerStatus` is the monitor's UPDATE, which is no error when the row is gone;
`CacheHSet` and `SetServerState` are the two HSETs, of which the second leaves the
address as it is (`None` when there was none). `UniqueIndexes` stands for the unique
indexes on `server_name` and `ipv4`. `issued` holds the ids ever generated, since
`gen_random_uuid()` does not repeat itself.

Two history variables record what no program reads. `users[id]` is the set of actors
between their first and last access to a server. `disturbed` is the set of servers on
which two actors overlapped, or a dual write was cut short, since the last write of
the row by an actor that was alone.

`ServerManagement` - one goroutine per request, `req[r].pc` names the call it makes
next. `CheckName` and `CheckIPv4` are the uniqueness reads (both for a creation, only
those of changed fields for an update), `CreateRow`, `UpdateServerRow` and
`DeleteServerRow` the writes to PostgreSQL, `UpsertHSet`/`UpsertSAdd` and
`CacheDel`/`CacheSRem` the two commands of `cache.Upsert` and `cache.Delete`.
`UpdateServer` keeps the status and the counter it read and writes them back, as the
code does. `DBError` ends a request with an error before its write; `RedisError` is
logged only, so the rest of the cache update is skipped and the caller is told of
success; `APICrash` ends all requests.

`Monitoring` - any number of instances with `Slots` workers each. `AcquireLock` is the
SETNX, `LockExpires` the TTL (nothing deletes the key), `FetchIDs` the SMEMBERS,
`TakeServer` the HGET of the address (`SkipServer` when it fails), `Ping` the echo,
`GetServerState`, `SetState` and `WritePostgres` the three store calls of `Evaluate`,
`NextState` its state machine and `WritesPostgres` its conditions for the third call.
`streak` (history) counts the failed pings in a row that reached Redis.

`ServerSystem` - both over the same stores, interleaved. `MCServerSystem` - the
instances for TLC, with symmetry in the sets of ids, names, addresses, requests and
workers (in the safety runs only), and `QuietSpec`, the behaviours in which no server is
ever disturbed.

What the models abstract: names and addresses are model values, description and
location of a server are left out (no property tells them apart), input validation is
the membership in `Names` and `IPs`, log lines are left out, and the observation log
that `Evaluate` feeds first is a part of its own (`ObservationLogger`).

### Runs

| Run | Checks | Shows |
| --- | --- | --- |
| `registry` | TypeOK, UniqueServers, UndisturbedInSync, DeletedStaysDeleted | two concurrent requests, two servers, every error and crash of the API |
| `system` | UndisturbedInSync, DeletedStaysDeleted | two requests and a ping worker on one server, every fault of both processes |
| `threshold` | ExclusiveCycles, OfflineNeedsThreshold | two instances, crashes and errors, no updates, cycles within the TTL |
| `reported` | DownIsReported, UpIsReported, KeepsBeingPinged | liveness under the fairness below: creations, updates and deletions of one server by two requests, every fault of the API, failed writes of the monitor to PostgreSQL |
| `stale_counter` | OfflineNeedsThreshold, violated | see findings |
| `lock_expiry` | ExclusiveCycles, violated | see findings |
| `dual_write_race` | FreshestAddress, violated | see findings |
| `write_amplification` | PostgresOnlyOnChange, violated | see findings |

*UndisturbedInSync* is the property the design rests on: whenever nobody is at work on
a server, the monitor's copy agrees with the row, unless actors overlapped on the
server or an error or crash cut a dual write short since the last undisturbed write.
It says both that one dual write done in the code's order ends in agreement and that
it repairs an earlier disagreement. It does not say that overlaps and failed writes are
harmless: they are not, and the property excuses them by name.

*DownIsReported* and *UpIsReported* have the same condition: from some point on the
server is not disturbed. Clients may go on updating it, and an earlier disturbance may
have been repaired by an update; what is excluded is an update that overlaps an
evaluation and a failed status write that nothing repaired. Both really break the claims.
An update that read ONLINE and writes both stores between the read and the write of the
evaluation that says OFFLINE leaves Redis OFFLINE and the row ONLINE, and since later
failures change nothing in Redis they write nothing to PostgreSQL; the row is wrong until
the next transition or update. Without the condition TLC finds such behaviours for both
properties, with no error anywhere.

### Findings

- `stale_counter`: a successful ping of an ONLINE server resets the counter in Redis
  but not in PostgreSQL, and UpdateServer copies PostgreSQL's counter back to Redis.
  One failed ping after an update then makes the server OFFLINE. The run uses
  `QuietSpec`, the behaviours in which no two operations on a server overlap and none
  is cut short, so that nothing but this is the cause.
- `lock_expiry`: the lock is not renewed, so a cycle longer than 25 s overlaps the
  cycle of another instance, which the architecture document rules out.
- `dual_write_race`: two requests on one server may reach PostgreSQL and Redis in
  opposite orders. In the trace an UpdateServer finds the row that a CreateServer has
  just stored and writes both stores before the HSET of the CreateServer; the monitor
  then pings an address the row no longer has. Two updates can cross in the same way,
  in a longer trace.
- `write_amplification`: a failed ping below the threshold writes PostgreSQL although
  the status does not change, which the architecture document rules out.

### Bounds

`Servers` bounds the creations (a creation needs an unused id); two ids give a
creation, a deletion and a second creation with the same name, and two rows for the
unique indexes to tell apart. Two names and two addresses are enough for a clash and
for an address to change. Two requests, or one request and one worker, are enough for
every interleaving of two actors on one server, and the properties speak of pairs.
`reported` has one server with one name and one address: status and counter do not depend
on them, and the cycle treats its servers independently of each other.
`Threshold` is 2, the smallest value for which a counter below it exists. `MaxRetry`
caps the counter of a server that stays OFFLINE: no condition of the code compares
that counter. The theorems hold for every value of all of these.

Deadlock is checked in every run but `registry`, where the ids run out with all
servers deleted and no monitor is running.

### Fairness

Weak fairness of each request's own calls (a goroutine runs until it returns), of
each instance's cycle (the ticker fires for ever, and `LockExpires` frees the lock),
of each worker's calls and of the key's expiry. Pings and Redis calls have timeouts; the
code sets none on its PostgreSQL statements, so that these return is an assumption. No
fairness is assumed of clients, of the outcome of a ping, or of errors. `reported` runs
without crashes of the monitor and without errors of its Redis calls: with one in every
cycle nothing can be promised. Its writes to PostgreSQL may fail.

## 4. The other parts

### Modules and how they correspond to the code

`ServerImport` extends `ServerManagement` with goroutines in `ImportServers`. A file is a
sequence of lines, each with a name and an address or invalid; `ValidLines` and
`LinesOfBatch` follow the loop of the code, in which invalid lines do not fill a batch.
`FindExisting` is the query of a batch; `SelectNew` is the set of lines the code keeps:
those that clash neither with its answer nor with a line kept before. What the code
appends to the slices `validServers` and `cacheItems` is a function on line numbers
(`valid`, `items`), sent in the order of the lines. `BatchCreate` is the one INSERT of
the batch, which a unique index refuses as a whole; `BatchHSet` and `BatchSAdd` are the
commands of the pipeline, between which other clients run, and `PipelineError` breaks it
anywhere. `given` (history) holds the number of lines of the file, the ids stored for it,
and the table as the batch was checked against.

`AuthSessions` - `session` and `token` are the two tables, `marked` the revocation keys
in Redis, `now` a clock. Each call of AuthService is a goroutine `call[c]`, each
statement and command a step: `Login`/`FirstToken`; `Refresh` (the read of the token,
whose reuse goes on as LogoutAll), `FindSession`, `RevokeOld`, `CreateNew`,
`MarkReplacement`; `Logout`/`FindActive`, `RevokeSession`, `RevokeSessionTokens`,
`MarkRevoked`; `LogoutAll`/`ListActive`, `RevokeAll`, `RevokeUserTokens` and one
`MarkRevoked` per listed session. The code ignores the errors of most of these
statements; such an action has an outcome `ok` and goes on in both cases. `Authenticate`
guards Logout and LogoutAll with the expiry of the access token and the revocation key.
`torn` (history) is the set of sessions whose calls overlapped or lost a statement,
`missed` of those whose mark in Redis was lost. `SessionLifetime` is what it amounts to:
sessions open once and end for good, a token is issued once, and stops being usable for
good, at the latest with its session. `Lifetime` is the refinement mapping: a session is
active, and a token usable, when the queries of the code would find it.

`ReportingWorker` - `status` is the column of the report requests, `queue` the buffered
channel, `job[h]` the report a handler is about to enqueue, `wk[w]` where a worker is in
`processReport`. `kind` tells the API server from the scheduler, which run the same code
with different shutdowns: `Signal`, `StopServers`, `ExitEarly` and `StopWorkers` follow
`Shutdown` of the API with the deadline of its graceful stop; `StopScheduler` closes the
queue while a cron job may still be running. A send on the closed queue is caught by the
recovery interceptor in the API and ends the scheduler. `Send` is sent, not sent, or sent
with an error after the server accepted the message. `mails` and `dropped` (history)
count the mails and name the reports that a failure, a shutdown or a crash gave up.

`ObservationLogger` - `ch` is the channel, `batch` what the flusher collected, `attempt`
the calls of the client that failed for it, `resends` the requests that the transport
repeated within the present call, `index` the number of documents of each observation.
`LogObservation` never waits; `Collect`, `Tick`, `LastBatch` are the cases of the
flusher's select, `Bulk` one bulk request, of which any subset is indexed when it fails.
The client is built with the defaults of its library, whose transport sends a body again
up to three times (`MaxRetries`) on a broken connection or a 502, 503 or 504: such a
request is "lost" and repeated inside the same call of `Do`, which may then return
success although the documents were stored more than once. This part is external and
modelled from the way the client is built (`database/elasticsearch.go`). A "rejected"
request, with document errors or any other error, ends the call and is left to the loop.
`Shutdown` closes the channel two seconds after SIGINT, when a ping may still be under
way: its observation is then sent on the closed channel and the process dies. `Kill` is
SIGTERM, which is not handled. `offered`, `overflowed`, `abandoned`, `died` and `killed`
are history. `ObservationLog` is the promise: an observation is buffered or refused,
gets at most RetryMax * (MaxRetries + 1) documents while it is buffered, one for each
request, and none after it is settled.

`UptimeReport` extends it with `CalculateUptime`: `CountTotal`, then `CountSuccess`, of
the documents of the period, and `HealthLabel`. `added` (history) counts what became
visible to a search in between: indexing and refresh are one step of the model, and it is
the refresh that the counts can see.

### Runs

| Run | Checks | Shows |
| --- | --- | --- |
| `import` | TypeOK, UniqueServers, UndisturbedInSync, CountsAreTrue, DuplicatesAreSkipped | every file of up to three lines beside a request that creates or deletes, database errors, broken pipelines, crashes |
| `sessions` | TypeOK, UndisturbedChain, RevokedIsMarked, ImplementsLifetime | two concurrent calls, the clock, one ignored error or crash |
| `reports` | TypeOK, MailedOnce, UnsettledIsHeld, ClosedAfterHandlers, StatusMovesForward, RequestsEnd, ShutdownEnds | a full queue, failures, shutdowns, crashes and restarts of both processes |
| `observations` | TypeOK, LossIsExplained, FigureIsEarned, ImplementsLog, BufferedSettles, WorkerStops | overflow, partial bulk failures, shutdown during a ping, kills, and the calculation reading meanwhile |

*CountsAreTrue* and *DuplicatesAreSkipped* are about what the caller of an import is told:
lines and counts agree across batches, and only a concurrent change of the table makes a
batch fail on a duplicate. *UndisturbedChain* and *ImplementsLifetime* bracket the rotation
of refresh tokens: where nothing went wrong there is exactly one usable token, and
whatever goes wrong no token and no session comes back. *RevokedIsMarked* relates the two
stores that must agree for a logout to reach access tokens. *UnsettledIsHeld* and
*LossIsExplained* say that nothing is lost without one of the named causes, *RequestsEnd*
and *BufferedSettles* that nothing waits for ever. *FigureIsEarned* bounds how far two
counts taken one after the other can be off, and that an empty period is not Healthy.

### Bounds

- `import`: three ids, two names and two addresses, so that lines clash within a batch,
  across batches and with a stored row; batches of two and up to three lines give a full
  and a partial batch. One request that creates or deletes. Deadlock is off: the ids run
  out.
- `sessions`: one user with two sessions and three tokens, which is two logins and a
  rotation, or a login and two rotations; two calls at a time. A session lives two ticks
  and an access token one, and the clock stops at two, so that both expire. One fault.
  Deadlock is off: ids, tokens and time run out.
- `reports`: three reports and two workers with a queue of one, so that the queue fills
  while both workers are busy and a handler blocks. One fault. Deadlock is checked.
- `observations`: three observations of two goroutines, a channel of one and a batch of
  two, so that the channel overflows and a batch is partial; two calls per batch, one
  resend per call and two faults, so that a batch is given up, and a request is repeated
  within a call. Deadlock is checked.

The proofs hold for every value of all these constants. The assumptions `ChannelSize`,
`BatchSize`, `RetryMax` at least 1 exclude configurations which the code would accept
and with which it could not work: `LoadObservationLoggerConfig` checks no lower bound.

### Fairness

`ReportingWorker`: weak fairness of every worker and of the steps of a shutdown that has
begun; strong fairness of a handler, because a Go channel serves its blocked senders in
order, so a sender that finds room again and again gets it. `UptimeReport`: weak fairness of
LogObservation (a ping has a timeout), of the flusher (its ticker fires, its pauses end)
and of the shutdown. Nothing is assumed of callers, signals, failures or restarts.

All four liveness properties (RequestsEnd, ShutdownEnds, BufferedSettles, WorkerStops)
rest on one assumption that the code does not secure: that calls to PostgreSQL,
Elasticsearch and the mail server return. `flush` calls `Do` with `context.Background()`,
the SMTP dialogue sets no deadline on its connection, and only the graceful stop of the
API's servers has one (ten seconds). A peer that accepts a connection and never answers
stops a worker, the flusher, and the shutdown that waits for them.

### Abstractions

Passwords, signatures, hashes, the Excel file and the mail are abstract; users never
change; the SMTP dialogue is one step, at its dial, where the context is read; a bulk request
and the refresh that makes it visible are one step; an INSERT that returns an error had
no effect in import and creation, while in reporting both outcomes are modelled. The
TTL of a mark of revocation is rounded to a second (`revocation_store_redis.go:22`), which
is below the grain of the clock of `AuthSessions`: in the last half second of a session
its mark may be missing or end early, and *RevokedIsMarked* does not speak of it.

## 5. Proofs

The theorems hold for every value of the constants that satisfies the named assumptions
of the modules (`StoresAssumption`, `ManagementAssumption`, `MonitoringAssumption`,
`ActorsDisjoint`; `ImportAssumption`; `SessionsAssumption`; `ReportingAssumption`;
`LoggerAssumption`, `UptimeAssumption`).

| Module | Theorem | States |
| --- | --- | --- |
| `ServerSystemProofs` | `TypeCorrect` | `Spec => []TypeOK` |
| | `UniqueServersHolds` | `Spec => []UniqueServers` |
| | `DeletedStaysDeletedHolds` | `Spec => DeletedStaysDeleted` |
| | `ExclusiveCyclesHolds` | `Spec => []ExclusiveCycles`, if `~CycleMayOutliveLock` |
| | `OfflineNeedsThresholdHolds` | `Spec => OfflineNeedsThreshold`, if `~CycleMayOutliveLock` and nothing is updated |
| `DualWriteProofs` | `UndisturbedInSyncHolds` | `Spec => []UndisturbedInSync` |
| `ServerImportProofs` | `ImportsAreTyped` | `Spec => []TypeOK` |
| | `ImportCountsAreTrue` | `Spec => []CountsAreTrue` |
| | `ImportSkipsDuplicates` | `Spec => []DuplicatesAreSkipped` |
| | `ImportKeepsServersUnique` | `Spec => []UniqueServers` |
| | `ImportsKeepDeletedDeleted` | `Spec => DeletedStaysDeleted` |
| `ImportSyncProofs` | `ImportedInSync` | `Spec => []UndisturbedInSync` |
| `AuthSessionsProofs` | `TypeCorrect` | `Spec => []TypeOK` |
| | `RevokedStaysMarked` | `Spec => []RevokedIsMarked` |
| | `SessionsRefineLifetime` | `Spec => ImplementsLifetime` |
| `SessionChainProofs` | `OneUsableToken` | `Spec => []UndisturbedChain` |
| `ReportingWorkerProofs` | `WorkersAreTyped` | `Spec => []TypeOK` |
| | `AtMostOneMail` | `Spec => []MailedOnce` |
| | `NothingIsLostSilently` | `Spec => []UnsettledIsHeld` |
| | `QueueClosedLast` | `Spec => []ClosedAfterHandlers` |
| | `RowsMoveForward` | `Spec => StatusMovesForward` |
| `ObservationLoggerProofs` | `LossesHaveCauses` | `Spec => []LossIsExplained` |
| | `LoggerRefinesLog` | `Spec => ImplementsLog` |
| | `BuffersAreBounded` | `Spec => []TypeOK` |
| | `FiguresAreEarned` | `Spec => []FigureIsEarned` |

Each inductive invariant was checked by TLC on the instances above before it was proved.

*Types.* `TypeOK` is not inductive: that a stored row has an address needs that the
request which writes it has one. `TypeInv` adds what the local variables hold at each
program counter (`LocalsFit`, `WorkerFits`), and that Redis only knows issued ids.
There is a lemma for every kind of assignment to the local variables, and one step
per action that cites them.

*Rows.* `RowsStep` lists what a step can do to the table: nothing, store a row the
unique indexes accept under a new or stored id, drop a row, or change a status. Every
action is one of these (`NextRowsStep`), and both theorems about rows follow from it.

*Lock.* `CycleInv` adds to ExclusiveCycles that the instance in a cycle holds the lock.

*Dual write.* `QuietInv` says of every undisturbed server that at most one actor is at
work on it, and what the two stores hold when that actor is at each of its program
counters: they agree until it writes PostgreSQL (a request) or Redis (a worker), and
from then on the store it wrote holds what it is about to write to the other.
`UsersOK` ties the history variable `users` to the actors' local variables. A step
touches one server; `QuietFrame` shows that the others keep their state (`Untouched`),
`OneServer` puts the two together, and there is a lemma per action for the server that
is touched.

*Threshold.* The counter that Evaluate reads must still be the counter when it writes.
`ThresholdInv` therefore says that a server is in the channel of the one running cycle or
with one worker (`PoolOK`, which needs `CycleInv`), and that a creation writes the hash of
a server the monitor has not heard of (`CreatesOK`); then the counter of an ONLINE server
is at most its streak of failed pings (`CountOK`), and a worker that is about to write
OFFLINE over ONLINE has seen the last failure (`PendingOK`). A deletion between the read
and the write leaves no hash to compare with, and a crash only forgets.

*Imports.* The loop that selects the lines of a batch is `SelectNew`, the choice of a set
that decides each line by the lines kept before it. That there is such a set (`KeptExists`)
is shown by the least line at which a selection of the lines so far could not be extended
(`KeepOneMore` extends it). `ImportInv` ties what an import holds to its program counter,
and adds the two facts the theorems need: every line of the file is counted once, as
stored, about to be stored, failed or not yet read (`CountsFit`), and the lines about to be
stored clash neither with the table as it was read nor with one another (`SelectedFits`).
The counts then follow from cardinalities: an INSERT generates as many new ids as it has
lines (`IdsCounted`). `TableStep` lists what a step does to the table, as `RowsStep` does
for the system; an INSERT of a batch is now one of its cases.

*Imports, dual write.* The `QuietInv` of `ImportSyncProofs` is that of the dual write with
an import as one more kind of actor. An import is at work on all the servers whose items
the pipeline has still to send (`UsersOK`), each in one item (`ItemsOnce`), and the row of
each holds what the pipeline will write (`ItemQuiet`), from the INSERT on. `ImportNext` has
no updates and no monitor, so that the row of such a server can only be deleted meanwhile,
which is an overlap.

*Sessions.* `IInv` ties each call's local variables to the tables (`CallsOK`), each token
to a session that was opened (`TokensOK`), and carries RevokedIsMarked. The refinement
then needs, action by action, which step of SessionLifetime it is; most are Retire or
stutter. `ChainInv` adds, for every undisturbed session, what the one call at work on it
has done to the chain of tokens (`ChainOf`): at each program counter of a rotation it
says which token is live, which is revoked without successor, and that all others name
theirs.

*Reports.* `IInv` says that a report is in one place at most (a handler, the queue, a
worker), which of these each status allows (`Places`), that an unsettled report is
somewhere or dropped (`HeldOK`), and when the queue may be closed (`ProcessOK`).

*Observations.* `IInv` says that an observation is once in the channel or in the batch,
that the documents of a batch are at most the requests made for it (`IndexOK`, in which a
failed call counts for all the requests it can make, `SentBounds`), what the flusher leaves when it is done (`FlusherOK`), and `LossOK`. The refinement maps the
channel and the batch to the buffer of ObservationLog. `FigureInv` adds the bounds of the
buffers (`SizesOK`: the flusher selects only with room in the batch) and what the two
counts have seen (`CountsOK`: whatever is found beyond the first count was indexed after
it); documents are pairs of an observation and a number, so that a count is a cardinality.

Checked by TLC only: the liveness properties (`DownIsReported`, `UpIsReported`,
`KeepsBeingPinged`, `RequestsEnd`, `ShutdownEnds`, `BufferedSettles`, `WorkerStops`), since
fairness and ENABLED are out of the prover's reach, and the counterexamples of the four
runs that expect a violation.

## 6. Not modelled

- *Request pipeline*: authentication, authorization, CSRF and validation decide about one
  request from its own headers and fixed tables, share no state, and a refused request
  changes none. What matters of them over time is modelled where it acts: the
  revocation lookup in `AuthSessions`, the recovery of a panic in `ReportingWorker`.
- *Rate limiter*: the window is counted by one atomic script of the redis_rate library;
  the repository's code builds its key and chooses its limit.
- *Search, list and export*: they only read. So do the three server counts of a report,
  on whose sum nothing depends.
- *Failure simulator*: a test tool that blocks addresses with nft at random.
- *Migration and seeding*: run once, before anything is served.
- *Excel, SMTP and MIME encoding, cryptography, configuration, logging, start-up wiring*:
  input and output, libraries, or no behaviour over time.
- *Generated code and the web front end*: about two thirds of the Go lines of the
  repository are generated messages, gateways and mocks, which is why the models stand
  for a small share of all lines although they cover the services that hold state.
