# SDLS v3: a TLA+ verification project

SDLS v3 is a small shop (gateway, order, payment, inventory and notification
services) built around a distributed logging system: a coordinator that polls the
services and fails two of them over to a backup, a node registry in Redis, a queue
of log entries in Redis drained into MongoDB, a dashboard. This directory holds
TLA+ modules of its stateful parts, TLC configurations that check them on small
instances, and proofs checked by TLAPS.

## 1. Inventory

| Component (source) | State | Operations | Talks to |
|---|---|---|---|
| Coordinator (`backend/coordinator-service/app.py`) | `_cluster_state` (entries with `fail_count`, `failovers`, `high_load`), `_active_endpoints`, `REDIS_OK` | monitor thread: read registry, poll every service, set endpoints, sample queue length, publish; handlers: register, endpoint, state, topology, priority | polls `/health` of every service; reads the registry and the queue length, writes `cluster_state` and `sdls:topology` in Redis |
| Address resolution (`backend/shared/constants.py`) | environment, URLs frozen at import | `get_service_url`: environment, then registry, then DNS name | Redis |
| Registry (`backend/shared/registry.py`) | one Redis key per service name, with a life of 90 s | `register_self` once per process, `refresh_ttl` every 30 s | Redis |
| Gateway (`backend/api-gateway/routes.py`) | `_cb_state` (circuit breaker) | `place_order`, `bulk_simulate` | coordinator for the address, order service |
| Order service (`backend/order-service/order_routes.py`) | none between requests | check stock, pay, deduct, notify | coordinator, inventory, payment, notification |
| Inventory (`backend/inventory-service/inventory_manager.py`) | `STOCK` under a lock | `check_availability`, `deduct_stock` | - |
| Payment and its backup (`payment_processor.py`) | none | a payment succeeds or is declined | - |
| Notification | none | logs the notification | - |
| Log pipeline (`shared/utils.py`, `logging-service/redis_worker.py`, `mongo_handler.py`, `log_routes.py`) | `sdls:log_queue`, the worker's buffer, MongoDB | `send_log`, `worker_loop`, `flush_batch`, `insert_log` | Redis, MongoDB |
| Log queries, analytics, alerts (`logging-service/analytics.py`, `alert_engine.py`, `log_routes.py`) | MongoDB | read-only; `get_overview` in two queries | MongoDB |
| Time sync (`time-sync-service/app.py`, `shared/log_format.py`) | `_time_sync_available`, one per process | `get_synchronized_utc_time`, `create_log` | time service |
| Sessions (`shared/session_manager.py`, `frontend/dashboard/app.py`) | one Redis key with a sliding life of 30 min, or an entry in memory | create, validate, destroy; login, pages, logout | Redis, browsers |
| Discovery (`shared/auto_discovery.py`, `discovery_server.py`) | `_peers`, `_discovery_done`, `.env.resolved` on each machine | broadcast, listen, register over HTTP, write `.env.resolved` | UDP, HTTP |
| Deployment (compose, systemd, terraform, scripts) | - | - | - |

What is hard to test here, and so what the properties are for (the full list, with
lines, is under `hazards` in `PROJECT.json`):

- **Coordinator.** Registrations arrive between two rounds and replace the entry
  the monitor counts in; services move while a round is under way; Redis is away
  when it starts; it restarts while services are failed over. *Correct when* callers
  leave a primary only after three failed polls in a row and come back at the first
  good one; entry, endpoint and timeline tell the same story; each outage is
  reported once; and what lasts in the environment is followed in the end.
- **Registry.** Heartbeats and expiry race with outages of Redis; keys are shared by
  all processes of one name. *Correct when* the key of a service lasts while a process of it
  that registered runs, and goes when none does.
- **Breaker.** Check, call and outcome are three steps of concurrent threads; a call
  (40 s) outlasts the open period (30 s), so outcomes arrive in any state of the
  circuit. *Correct when* it opens only when earned, admits nobody while open, rejects
  only while a failure is recent and always recovers.
- **Log pipeline.** Partial bulk writes and their retries, lost answers, deaths with a
  batch in memory, the HTTP fallback, and a Redis that may evict the queue and falls back to
  its last snapshot when it crashes. *Correct when* retries neither duplicate nor
  drop, entries are lost by nothing but a death of the worker that has them or of the list
  they wait in, and the queue drains.
- **Order pipeline.** Stock is checked before and deducted after the payment, the answer
  of the deduction is ignored, a call that timed out may still be carried out. Nobody
  looks at the sign of a quantity. *Correct when* no more is given away than was on the shelf
  and was added to it by such a quantity, stock is taken only for orders that were paid for,
  and what customers are answered and told agrees with what they were charged.
- **Sessions.** Requests of several browsers interleave between two Redis commands: two
  logins at once, a page validated while its session expires, is logged out or is
  replaced. *Correct when* a session in use keeps its place and keeps others out
  unless one of three named things ends it, and one nobody uses ends.
- **Time sync and overview.** The flag that says "do not ask again" is shared by the
  threads of a process; answers are used after any delay; the overview counts by two
  queries while records arrive. *Correct when* synced timestamps order records, a
  missing time service is paid for once per thread, and no error is counted as a success.
- **Discovery.** Three machines start in any order, lose packets, come back under another
  address; one that knows everybody stops sending. *Correct when* machines that search
  together find each other's present address, a file points to the present address of the
  right system as far as anybody said it, and every search ends.

## 2. Modules

    FailoverRouting      abstract: route and misses in a row per service
      ^ implemented by (INSTANCE ... WITH)
    Coordinator          monitor thread, handlers, environment   CoordinatorProofs
    LogDelivery          abstract: copies of entries arrive, wait, are stored
      ^ implemented by
    LogPipeline          send_log, queue, worker, MongoDB    LogPipelineProofs
    OrderBook            abstract: charge, answer, goods and notice of an order
      ^ implemented by
    OrderPipeline        orders over the services            OrderPipelineProofs
    Registry             registry keys, heartbeats, expiry       RegistryProofs
    CircuitBreaker       the gateway's breaker                   CircuitBreakerProofs
    LogRecords           timestamps, stored records, overview  LogRecordsProofs
    Sessions             the dashboard's logins              SessionsProofs
    Discovery            three machines that find each other DiscoveryProofs
    MC<module>           instances for TLC

In every module a definition headed `Variant:` is a version of the next definition
with a plausible bug. No specification uses it; `mutants` in `PROJECT.json` pairs
each property with the variant that violates it.

### Coordinator

A URL `http://host:port` is `[svc, host]`, because every name has a port of its own.
One round of `health_monitor_loop` is `StartRound` (read the registry, build
`service_map`, take the lock), one `Probe(n)` per name in any order (poll, decide,
`SetEndpoint`, `Record`), `SampleLoad`, and `Publish` (publish, release, sleep).
Probes are separate because the world changes between polls of 3 s each;
`RegisterService` needs the lock and so waits for `pc = "sleep"`; `Restart` may come
anywhere. `ActiveEndpoint(n)` is the answer of `GET /api/cluster/endpoint/<n>`.
`up`, `reg`, `redisUp` and `overload` are the environment; `streak` is a history
variable that counts failed polls independently of `fail_count`. `Extra` holds names
outside `PORTS` that register all the same: `backup-payment-service/app.py:20`
registers `backup-payment-service`, whose port is 0 and which is polled in vain.

`FailoverRouting` says what callers may rely on: a route and two counts of misses per
service, `misses` in a row and those `counted` since the service last registered. One
answer routes to the primary; the miss that brings `counted` to `Threshold` routes to the
backup, and no earlier or later one does; a registration starts `counted` again, because
the code replaces the entry it counts in (section 5); a restart forgets. The mapping takes
`route` from `active`, `misses` from the history `streak` and `counted` from the entries'
`fail_count`; every other step stutters.

Reading the whole registry is one step (the code reads key by key), and so is a
poll. `TopologyExpires` may happen at any time, which allows for rounds longer than
the key's 30 s. `TopologyRepublished` accordingly says that the snapshot comes back again and again, not that there is one at
every moment, and only of a process that found Redis when it started.

### Registry

Nothing reads an absolute clock, so the model keeps ages: of the keys, of outages, of
heartbeat sleeps. `Start` is `register_self` and `start_heartbeat` with their ignored
failure, `Beat` one wake-up of the thread (`EXPIRE` does nothing to a missing key),
`Tick` one unit of time with Redis's expiry, `LoseKey` an eviction (`allkeys-lru`)
or a crash of Redis before it saved.

### CircuitBreaker

Requests share `open`, `fail_count` and `remaining` (what is left until `open_until`).
`Admit` is `_cb_check` returning True, `Rejecting` the case of False, `Fail` and
`Succeed` a call that returned with the recorded outcome. The history variables say what
really happened: `fails` since the last success, `unopened` those of them since the circuit
last opened, `failAge` and `calledFor`. `OpensWhenEarned` ties the circuit to them from both
sides: while it is open there were five failures, and there are never five without its having
opened. A request that was rejected has changed nothing, so it needs no step. `Abandon` is an admitted
request whose body is JSON but no object: `payload["trace_id"] = ...` raises before the call, and
no outcome is recorded, not even for a circuit that it has just half opened.

### LogPipeline

`Push` is `send_log` up to the fallback, `Post` one service tried by `_http_log`,
`Iterate` one pass of `worker_loop`, `Bulk` and `BulkFails` one attempt of
`flush_batch`, `GiveUp` what follows the last. `applied` is the part of the batch that
MongoDB already holds: the driver gives a document its `_id` on the first attempt, so a
repeated insert of it fails as a duplicate, and fails the attempt. `GiveUp` ends the
process because `json.dumps` raises on that `_id`. `dead` therefore never grows.
`docker-compose.yml:46` runs Redis with `--save 60 1` and `allkeys-lru`: `Save` puts the list into
`saved`, its last snapshot, `Evict` drops the list, and `RedisCrash` replaces it by the snapshot,
so that what was pushed since is lost and what was popped since is back. A crash is also noticed by
a worker in its loop, whose calls of Redis follow on each other; one that flushes may miss it.
`Outage` is a server that cannot be reached and keeps what it holds. MongoDB is taken to keep what it acknowledged.
The key `high_load`, `queue_stats` and the retention dates are left out: nothing in
the pipeline reads them back.

`LogDelivery` knows none of this: copies of an entry arrive, wait and are stored, one document
for one copy, and a crash may lose copies, of the process that held them or of the store they
waited in, which may also have some back (`atRisk`, `dropped`, `restored` name them). The mapping computes
`waiting` from the state of the worker: a copy waits in the queue, or in the buffer without
being among the batch's `applied` documents. A half-done `bulk_write` is therefore a `Store` of
the part it inserted, a retry a `Store` of the rest, and a pop a stutter.

### OrderPipeline

Each order is a request thread of `create_order`; `stage[o]` is the call it waits for.
`Receive`, `Check`, `Pay`, `Deduct` and `Notify` are the thread's steps from one call to the
next, `Serve...` the handlers of the services it calls, which take effect in one step
(`deduct_stock` holds the lock). A thread may go on without an answer at any time
(exception or timeout) and leaves its request in `sent`, where it may still be served; a
request that never reaches a service, or dies with its process, is a `Lose`. Where a call is
sent is not modelled: a stale address is a lost request. `RestartInventory` fills the
shelves again, because `STOCK` is a variable of the process. `Quantity` is any integer, because
no service looks at its sign: `current >= quantity` is true of a negative one, and its deduction
adds to the stock. `everTaken`, `lost` and `told` are history; `charged` is the world outside.

`OrderBook` is the order as its customer and the shop see it, without requests and threads: who
is charged (once, before the answer or after a 503), which answer is given (200 to those who
paid, 400 or 402 to those who did not), to whom goods are given (to those who paid, once, from what is there)
and what a notice says. The services implement it variable by variable; a step
that only sends, loses or answers a request stutters.

### Sessions

The only user name is `admin`, so there is one record: `stored` (its token) and `life`.
Each request is one thread of the dashboard, and `pc` says before which Redis command it
is: `CreateInRedis` is the `SET NX EX` of a login, `ReadRedis` and `WriteRedis` the `GET` and
the `SET EX` of a validation, `Delete` the logout's. Without Redis, which is decided once at
import, `LookInMemory`, `StoreInMemory`, `ReadMemory` and `Pop` take their places. `Welcome` and
`Bye` are the answers that change the browser's cookie. `Fails` is an exception of
Redis, caught or answered with 500, or an answer that does not arrive. `Tick` lets time pass
for the key, for the copy in Redis's last snapshot (`Save`) and for `age`, the history of when
each token was last accepted. `LoseKey` is an eviction, or a crash of Redis that brings back what the
snapshot has: nothing, an earlier session or the same one with less life.

`fate` is the history of what ended a session since it was last accepted, and
`LiveSessionIsKept` names the three ways in which one in use may go: a logout, a
validation that was under way when an *earlier* session ended and is written back over it, and the loss
of its key by Redis. That there is no fourth way is the property, with two sequels: a session that came
back one of these ways is kept from its next use on like any other, and what is on record was used within
its life, even a session that a late validation or a snapshot brought back. That a logout can be undone and a newer
login overwritten is finding material (section 5). A restart of the dashboard, which without Redis forgets the
session, is not modelled.

### LogRecords

A thread in `create_log` asks the time service (`Begin`, `GetTime`), uses the answer
(`UseReply`) or its own clock (`Refused` for a status other than 200, `Raises` for a
timeout or a lost connection, which clears the flag of its process; `GoAlone` once it is
clear). The clock of the time service is taken never to step back; the code only reads it, and would not
notice. `before` is what was complete when the call began, which is what "happened earlier"
means between processes. `stored` counts documents by each of the four statuses, `CountTotal` and
`CountErrors` are the two queries of `get_overview`, and `NotErrors` is what its `success_count` really counts:
SUCCESS, INFO and WARNING (section 5). The pipeline between the two is
`LogPipeline`'s; here a record may be stored at any time after its creation.

### Discovery

One machine per role. `Start` is the beginning of `run_discovery`, `Broadcast` one datagram to
all that listen, `Bind`, `Receive` and `CloseSocket` the listener, `GiveUp` the timeout of the main loop,
`Configure` the copy of the table and `write_resolved_env`, which reads nothing but the copy and so is one step with it;
`RegisterPeer` is `POST /register`, whose sender is taken to know the peer's present address (the handler stores whatever
the body says). `Kill`
stops a program or restarts its machine, maybe with another address. The unit of time is
the broadcast interval of 3 s: `Tick` is enabled when everything due within it has happened,
in any order. `Lose` is a datagram that does not arrive. `reported` and `missed` remember what a
machine was told and what it never got, `outdated` of which machines the last it was told is no longer true, because they
moved since. `CallsReachTheirSystem` demands the present address unless one of these says why not. A machine that is `absent` runs no discovery; the
other machines may still be told of it.

## 3. Runs

| Run | Instance | Shows |
|---|---|---|
| `coordinator_safety` | one service with a backup, one extra host, `FailCap` 4, 2 events | its invariants and `ImplementsRouting` in every interleaving: neither a hasty nor a late failover |
| `coordinator_liveness` | the same with an extra registered name, 1 event, `FairSpec` | failover, failback and topology follow the environment |
| `registry_safety` | two processes of one service, unit of 5 s: `TTL` 18, `HB` 6, one unit late, outages up to 3 units, 8 apart | keys of running processes stay, dead services leave; the bound is tight (3 + 7 + 7 = 17 < 18) |
| `breaker` | 3 requests, threshold 5, open period 3, calls up to 5 units, some without an outcome, `FairSpec` | it opens when earned and not otherwise, admits nobody while open, rejects only while a failure is recent, and `Recovers` |
| `logs` | 3 entries, batches of 2, 3 attempts, 2 faults, `FairSpec` | `ImplementsDelivery`; no copies from retries and at most three arrivals in all, no loss but by a death of the worker or of the list, draining |
| `logs_dead_letter` | 2 entries | `FailedAreDeadLettered` fails: the dead-letter list stays empty (redis_worker.py:66) |
| `orders` | 3 orders of one product: for 1, for 2 and for -1 of a shelf of 2; 1 restart; `FairSpec` | `ImplementsBook`; no more given away than was there and was added; answers and notices agree with the charges; every order answered |
| `orders_placed` | 2 orders | `PlacedTookStock` fails: both pass the check, both are charged and "placed", one has no stock (order_routes.py:89, 131) |
| `sessions` | 2 browsers with one request each under way, 2 logins, a life of 2 units, with and without Redis, any eviction and snapshot, `FairSpec` | a session in use goes only the three named ways and keeps other logins out, an idle one ends, an entry that is over is cleared |
| `records` | 3 threads of 2 processes, one with its clock behind, 4 records, 2 of them stored, with any status, 2 moments | synced timestamps order records, one timeout per thread, no error counted as a success |
| `discovery` | three machines undisturbed, or two with 2 incidents; timeout of 3 intervals, `FairSpec` | machines that search together know each other, files point to the present address of the right system as far as it was said, every search ends |
| `discovery_late` | three machines undisturbed, `FairSpec` | `TogetherAllAreFound` fails: the last to start is heard, the others stop sending before it has heard them (auto_discovery.py:8, 105) |

**Bounds.** `MaxEvents` and `MaxFaults` bound only the environment (and registrations
and restarts), never the program, and the initial state already ranges over every
set of reachable URLs, every registry and both states of Redis; one or two changes
after that reach each hazard listed, as the mutants show. `FailCap` exceeds the
threshold by one, so that counts on both sides of it and a saturated one exist; the
code counts without bound, and only the comparison with 3 reads the count. In the
breaker `FailsCap` is one above the threshold, and time is in units of 10 s with a call
one unit longer than the code's timeout, which applies to connecting and to reading
separately. Three requests are enough for outcomes that arrive while the circuit is
open, after it has closed and after it was opened again. `Slack`, `MaxOutage` and
`MinUptime` bound what the registry's theorem must assume; they are parameters of
`LiveStaysListed` through `Tolerable`. Losses and late answers of `OrderPipeline` are not
bounded at all; `MaxRestarts` is, and one restart separates what one process gave away
from what all did. `logs` and `orders` are checked without deadlock detection: all
entries sent and stored, with no fault left and the worker down and MongoDB away, is
a legitimate end, and so is every order answered. The same holds of `discovery` (all
machines configured), `records` (all records created and stored) and `sessions` (all logins
used up, no session left).

In `orders` the shelf of 2 suffices for either of the two buyers and for both only with what the negative
quantity adds. In `sessions` two tokens tell an earlier session from a later one, and two requests of
different browsers let a validation meet a login, a logout or another validation; a life of 2
separates a key that is renewed from one that runs out, and a snapshot from the key it was made of. Losses and snapshots of
Redis are not bounded there; in `logs` they count among the `MaxFaults`. In `records` the shorter clock is enough
because only the order of two readings matters, and four records let two processes be ordered
both ways; `MaxStored` is 2 because the overview only compares counts (an error stored between them is the hazard), and
the two threads of one process are symmetric. `discovery` with its 233,990 states has `DISCOVERY_TIMEOUT` 3 instead of 20: two
intervals are what a meeting needs, the third is the last before giving up. With three machines
*and* incidents the state space is out of reach; two suffice for every pairwise property, and
the proofs cover the rest.

**Fairness.** `Coordinator!FairSpec`: the monitor thread keeps running (`while True`,
every request and Redis call has a timeout; an exception from a malformed registry
entry would end it, see the hazards). Nothing is assumed of the environment:
liveness properties have the form "if X lasts, then Y lasts". `Registry!FairSpec`:
time passes, sleeping threads wake, outages end. `CircuitBreaker!FairSpec`: time passes
and calls return (`timeout=40`). `LogPipeline!FairSpec`: the worker takes its steps and is
restarted when it can connect (`restart: unless-stopped`), and the flush interval
passes. The senders are not assumed to go on. `OrderPipeline!FairSpec`: each request thread
runs on, because each of its calls has a timeout; no service is assumed to answer.
`Sessions!FairSpec`: a request that was accepted is served, and time passes.
`Discovery!FairSpec`: the threads of a machine that runs keep running (each of their waits
has a timeout: 1 s, 2 s, 3 s), and time passes; no machine is assumed to start or to stay.

## 4. Proofs

All for every value of the constants that satisfies the named assumption of the module.

- **CoordinatorProofs.** `TypeCorrect`: `TypeInv` adds to `TypeOK` that `service_map[n]`
  names `n`, that nothing is left to poll outside a sweep, and that an endpoint is of
  the service or of its backup. `RoutesAreJustified` proves `BackupAfterThreeMisses`,
  `EntryAgreesWithRoute` and `CountNeverOverstates` (`fail_count` is at most the polls missed in
  a row). They are not inductive alone: after a registration the entry says nothing, so the
  route has to be tied to `streak` and the entry's count bounded by it, which is `RouteInv`.
  `CoordinatorImplementsRouting` shows with it that a poll is `Answered` or `Missed`, a
  registration is `Registered` or stutters, a restart is `Forget`, and all else stutters; what
  makes a third miss switch at once is that `SetEndpoint` runs in the same step as the count.
  `TimelineIsFaithful` proves `TimelineExplainsRoute` and
  `TimelineNeverRepeats` for a timeline of any length: an event is appended exactly
  when the endpoint changes, so the last event of a service carries its endpoint.
- **RegistryProofs.** `RegisteredStayListed` (of the key of the service: it may name another process of that name): the invariant bounds the age of a listed key
  by how long its processes have slept, one bound for the last heartbeat having
  reached Redis and a larger one, with the length of the outage, for having missed;
  between two outages (`MinUptime > HB + Slack`) every process beats, so two misses in a
  row are of one outage. `DeadServicesLeave`: a key that exists belongs to a service some
  process of which ran more recently than the key's age.
- **CircuitBreakerProofs.** `BreakerIsSafe` with `BreakerInv`: `unopened` never exceeds
  `fail_count`, which never exceeds the failures since the last success, so the circuit opens
  neither late nor early; `remaining` plus the age of the last failure never
  exceeds `CB_TIMEOUT`; and every call under way began before the open period.
- **OrderPipelineProofs.** `OrderInv` has one conjunction per order: what
  holds at each stage of its thread, what the requests still under way may find whenever
  they are served (a payment under way is of an order still paying or answered 503 and told
  nothing; a deduction under way is of a paid order that has taken nothing), and what has been
  given out. `Others` shows that no order disturbs another. `CustomersAreTreatedFairly` reads
  `StockOnlyIfPaid`, `AnswerTellsCharge` and `NoticeTellsCharge` from it. `OrdersImplementBook`
  uses it as the guards of `OrderBook`'s actions: that `everTaken` lacks the order when its
  deduction is served is what makes each deduction the only one. `VerdictsAreFinal` follows:
  an answer never changes, and after any answer but 503 nothing more is charged.
  `StockIsNeverOversold` holds for quantities of either sign. It counts the items given away and those
  added (`Items`, `Added`, pairs of an order and a number, so
  that their count is a cardinality and no sum over a set is needed): an order that takes stock
  adds exactly its quantity to one of the two, because it was not among the takers (`PairsOfOrder`, `ItemsInv`).
- **LogPipelineProofs.** `PipelineInv` adds to `TypeOK` that no entry is in the queue or in its snapshot twice (only a
  first push puts it there), or in the queue and the buffer at once except during a flush, when a snapshot may come back,
  that one not yet sent is in none of them, and that documents are counted as applied only during a flush. With it, what a
  pop removes from the queue is what the buffer gains, and what a failed attempt
  inserted is what the next attempt cannot insert again. `PushStep`, `PostStep`,
  `IterateStep`, `FlushStep`, `DeathStep`, `EvictStep` and `CrashStep` show for each group of actions that it keeps the
  invariant and is a step of `LogDelivery` or a stutter: `PipelineImplementsDelivery`.
  `RetriesDoNotCopy` and `OnlyCrashesLose` are then facts about `LogDelivery`: its accounts balance, from
  above always and from below for entries in neither `atRisk` nor `dropped`
  (`Balanced`, `Accounts`, `AccountsStep`), and nothing of the pipeline is looked at again. Only the bound of three
  copies needs the sender (`SenderInv`: how many copies an entry can have at each `stage`).
- **LogRecordsProofs.** `SyncedRecordsSort`: the invariant adds that synced stamps lie in the past
  and that an answer is not older than any synced record from before its question, so that the
  record it will stamp sorts after them whatever is completed in between. `OverviewIsModest`: the first
  count is at most what is stored, and the second only grows, so that their difference is at most `NotErrors`. `TimeoutsAreBounded`: failures plus the
  threads that still wait never exceed the threads of the process.
- **SessionsProofs.** `LiveSessionsAreKept` with `LifeCoversUse`: the life left of the key plus
  the age of its token is at most `SESSION_TTL`, also in the snapshot, so that no key outlasts its use; of a session
  whose `fate` is to be kept it *is* `SESSION_TTL`, so that its key runs out exactly when nobody used it for
  that long. What a validation writes back or a snapshot holds is a session that was on record before (`Origins`).
- **DiscoveryProofs.** `MachinesMeet`: after one full interval a machine listens and no packet of an
  earlier run of it is under way (`Settling`); then its address is known to each other such machine,
  or on its way to it, or about to be sent, and known after the second interval (`Meeting`).
  `FilesPointToSystems`: what a machine was told last is in its table until it writes its file, and there and in the
  file it is the present address unless `outdated` says that the machine moved since (`Files`, `Fits`, `Entry`).

Several theorems are stated once for a group of properties and once more for the single
property (`EntriesAgreeWithRoutes`, `CountsAreHonest`, `OutagesAreReportedOnce`,
`OldFailuresRejectNobody`, `NobodyEntersAnOpenCircuit`, `StockIsPaidFor`, `NoticesAreTrue`), so that
each invariant of the runs can be looked up by name. `CountNeverOverstates` and `StockOnlyIfPaid` are
proved and no longer run: `ImplementsRouting` and `ImplementsBook`, which are run, say more.

What is proved of one component holds in the company of the others, because each module leaves its
neighbours free: the coordinator is proved for any registry contents, changing at any moment; the orders for any
requests lost or late, and so wherever a route leads; the breaker for any answers.

Every invariant and both kinds of refinement that the runs check are proved. Only model-checked: liveness and
the leads-to properties (`FailoverHappens`, `FailbackHappens`, `TopologyRepublished`, `Recovers`, `QueueDrains`,
`EveryOrderAnswered`, `IdleSessionEnds`, `LeftoverIsCleared`, `EveryRunEnds`), because fairness and ENABLED are out of
the prover's reach.

## 5. Findings

`findings` in `PROJECT.json` quotes each disagreement between a doc, comment or message and
the code. Three are shown by a run: the dead-letter path always raises (`logs_dead_letter`), an
order is placed and charged although its stock was refused (`orders_placed`), and the machine that
starts last may never hear the others (`discovery_late`).

The others need no more than the quoted lines; most are visible in the modules as well, where
they are what an action does:

- a registration resets the failure count (`RegisterService`); Redis missing at start silences the
  coordinator for good (`REDIS_OK` never changes after a start);
- heartbeats keep a dead process's address alive and never restore a lost key (`Beat`);
- the half-open circuit lets everyone through (`Admit` clears `open`);
- a validation under way undoes a logout or overwrites a newer login (`WriteRedis`); in memory an
  entry that is over refuses logins until someone with an old cookie comes by (`LookInMemory`, `Pop`);
- an order for a negative quantity is accepted, charged, and raises the stock (`ServeDeduct`, with `Quantity` any integer);
- Redis may drop the whole queue or lose what was pushed since its last snapshot, and with it entries the senders take for
  delivered; what a snapshot brings back is stored twice (`Evict`, `RedisCrash`);
- the dashboard's "Successful" counts INFO and WARNING entries too (`NotErrors`);
- a process whose time service failed once stays on its own clock (`Raises`);
- the error rate may exceed 100 % (`CountErrors` after `Insert`); the alert about the "last 20 logs" looks at the
  last five errors ever stored;
- a peer registered over HTTP makes `/ready` true without ending the search (`RegisterPeer`); the patching of
  `constants.py` finds nothing to patch; the order of sources for an address differs from the header.

## 6. Not modelled

- **Coordinator reads** (`cluster_state`, `topology`, `log_priority`). They change nothing; `cluster_state` serialises
  live entries after the lock is released, and nothing in the repository promises that its
  answer is of one moment. `ActiveEndpoint`, the read that callers act on, is modelled.
- **Log queries.** Trace, service and timeline queries, statistics and alerts are one read each, and
  what follows is formatting. The backup logging service is a copy of the primary, which
  `LogPipeline` covers by its second target.
- **Sessions page** (`get_active_sessions`), which in memory also drops an entry that is over, and the dashboard
  without `session_manager`, which keeps no state.
- **Discovery's reads** (`GET /peers`, `/ready`, `/health`), `--patch-only`, the detection of the LAN address, and
  registrations between the start of the HTTP server and that of the search.
- **`service_base.init_service` and `notifier`**: no caller in the repository.
- **Dashboard pages and browser code**, **deployment files**, **MongoDB's own expiry**: presentation and configuration.

What would be worth adding next: `LogPipeline` with both targets' own state, to say what the
dashboard of the backup shows after a failover; and the composition of `Discovery` with
`Coordinator`'s `get_service_url`, whose environment is what discovery wrote.
