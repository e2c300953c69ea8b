------------------------------ MODULE LogPipeline ------------------------------
(***************************************************************************)
(* The way of a log entry from send_log to MongoDB: the Redis list and the *)
(* worker that drains it in batches, or, when Redis fails the sender, HTTP *)
(* to the logging service and then to its backup.  Redis, MongoDB and the  *)
(* connections to them fail; the worker dies and is restarted; Redis may   *)
(* evict the list, and after a crash has that of its last snapshot.        *)
(*                                                                         *)
(* The key high_load and the queue statistics, which nothing in the        *)
(* pipeline reads back, are left out.                                      *)
(***************************************************************************)
EXTENDS Naturals, Sequences, FiniteSets

CONSTANTS
    Logs,                \* log entries, each sent once
    BATCH_SIZE,
    MAX_RETRY_ATTEMPTS,
    MaxFaults            \* bound: failures of the environment

ASSUME PipelineAssumption ==
    /\ BATCH_SIZE \in Nat \ {0}
    /\ MAX_RETRY_ATTEMPTS \in Nat \ {0}
    /\ MaxFaults \in Nat

VARIABLES
    redisUp, mongoUp,  \* Redis and MongoDB answer
    faults,            \* failures the environment may still cause
    REDIS_AVAILABLE,   \* the senders' module flag, fixed at import
    stage,             \* how far the sender of each entry has got
    queue,             \* the Redis list: LPUSH at the end, BRPOP at the head
    saved,             \* the list as Redis's last snapshot has it
    worker,            \* the worker process: "down", "loop" or "flush"
    buffer,            \* its buffer, which is the batch while it flushes
    applied,           \* the documents of the batch MongoDB has inserted
    attempt,           \* the attempt flush_batch is making
    due,               \* FLUSH_INTERVAL has passed since last_flush
    stored,            \* how many documents MongoDB holds of each entry
    dead,              \* the Redis list log_queue_dead
    arrivals,          \* history: pushes and posts of the entry that arrived
    atRisk,            \* history: entries the worker held when it died
    dropped,           \* history: entries Redis lost with the list
    restored,          \* history: copies of the entry a snapshot brought back
    gaveUp             \* history: entries of batches all attempts failed on

outside == <<redisUp, mongoUp, saved, dropped, restored>>
sender  == <<REDIS_AVAILABLE, stage>>
process == <<worker, buffer, applied, attempt, due>>
vars    == <<outside, faults, sender, queue, process, stored, dead,
             arrivals, atRisk, gaveUp>>

Init ==
    /\ redisUp \in BOOLEAN /\ mongoUp \in BOOLEAN
    /\ faults = MaxFaults
    /\ REDIS_AVAILABLE \in BOOLEAN
    /\ stage = [l \in Logs |-> "new"]
    /\ queue = << >> /\ saved = << >>
    /\ worker = "down" /\ buffer = {} /\ applied = {} /\ attempt = 1 /\ due = FALSE
    /\ stored = [l \in Logs |-> 0]
    /\ dead = {}
    /\ arrivals = [l \in Logs |-> 0]
    /\ atRisk = {} /\ gaveUp = {} /\ dropped = {}
    /\ restored = [l \in Logs |-> 0]

Fault == faults > 0 /\ faults' = faults - 1

Entries(list) == {list[i] : i \in DOMAIN list}
Queued == Entries(queue)

Plus(f, S) == [l \in Logs |-> IF l \in S THEN f[l] + 1 ELSE f[l]]
--------------------------------------------------------------------------------
\* send_log, in the process that serves a request.

Pushed(l) == queue' = Append(queue, l) /\ arrivals' = Plus(arrivals, {l})

Push(l) ==
    /\ stage[l] = "new"
    /\ \/ \* LPUSH is answered.
          /\ REDIS_AVAILABLE /\ redisUp
          /\ Pushed(l)
          /\ stage' = [stage EXCEPT ![l] = "done"]
          /\ UNCHANGED faults
       \/ \* It is executed, but the answer is lost or late: HTTP as well.
          /\ REDIS_AVAILABLE /\ redisUp
          /\ Fault
          /\ Pushed(l)
          /\ stage' = [stage EXCEPT ![l] = "primary"]
       \/ \* Redis cannot be used.
          /\ ~(REDIS_AVAILABLE /\ redisUp)
          /\ stage' = [stage EXCEPT ![l] = "primary"]
          /\ UNCHANGED <<faults, queue, arrivals>>
    /\ UNCHANGED <<outside, REDIS_AVAILABLE, process, stored, dead, atRisk, gaveUp>>

\* The service tried next, or the entry ends on the sender's standard output.
NextStage(s) == IF s = "primary" THEN "backup" ELSE "printed"

\* POST /api/logs on a logging service, which stores the entry.
Ingest(l) == stored' = Plus(stored, {l}) /\ arrivals' = Plus(arrivals, {l})

\* One POST of _http_log; the answer's status is not looked at.
Post(l) ==
    /\ stage[l] \in {"primary", "backup"}
    /\ \/ \* Stored and answered in time.
          /\ mongoUp
          /\ Ingest(l)
          /\ stage' = [stage EXCEPT ![l] = "done"]
          /\ UNCHANGED faults
       \/ \* Answered 500: for the sender that is a delivery.
          /\ Fault
          /\ stage' = [stage EXCEPT ![l] = "done"]
          /\ UNCHANGED <<stored, arrivals>>
       \/ \* Stored, but after the sender's 2 s: it goes on to the next service.
          /\ mongoUp
          /\ Fault
          /\ Ingest(l)
          /\ stage' = [stage EXCEPT ![l] = NextStage(@)]
       \/ \* Refused; or MongoDB is down, for longer than the sender waits.
          /\ IF mongoUp THEN Fault ELSE UNCHANGED faults
          /\ stage' = [stage EXCEPT ![l] = NextStage(@)]
          /\ UNCHANGED <<stored, arrivals>>
    /\ UNCHANGED <<outside, REDIS_AVAILABLE, queue, process, dead, atRisk, gaveUp>>
--------------------------------------------------------------------------------
\* The worker.

\* The imports connect to MongoDB: without it the process dies and is restarted.
StartWorker ==
    /\ worker = "down"
    /\ mongoUp
    /\ worker' = "loop"
    /\ due' = FALSE
    /\ UNCHANGED <<outside, faults, sender, queue, buffer, applied, attempt, stored,
                   dead, arrivals, atRisk, gaveUp>>

\* The process ends; what it held in memory goes with it.
Dies(held) ==
    /\ worker' = "down"
    /\ buffer' = {} /\ applied' = {} /\ attempt' = 1 /\ due' = FALSE
    /\ atRisk' = atRisk \cup held

\* Variant: only a full buffer is flushed.
FlushesWhenFull(held) == Cardinality(held) >= BATCH_SIZE

ShouldFlush(held) == Cardinality(held) >= BATCH_SIZE \/ (held # {} /\ due)

\* One iteration of worker_loop: BRPOP an entry, if there is one, then flush or not.
Iterate ==
    LET popped == IF queue = << >> THEN {} ELSE {Head(queue)}
        held   == buffer \cup popped
    IN  /\ worker = "loop"
        /\ redisUp
        /\ queue' = IF queue = << >> THEN queue ELSE Tail(queue)
        /\ buffer' = held
        /\ worker' = IF ShouldFlush(held) THEN "flush" ELSE "loop"
        /\ UNCHANGED <<outside, faults, sender, applied, attempt, due, stored, dead,
                       arrivals, atRisk, gaveUp>>

\* LLEN or BRPOP raises, which nothing catches.
RedisError ==
    /\ worker = "loop"
    /\ ~redisUp
    /\ Dies(buffer)
    /\ UNCHANGED <<outside, faults, sender, queue, stored, dead, arrivals, gaveUp>>

\* BRPOP is executed but its answer is lost: the entry is in nobody's hands.
PopLost ==
    /\ worker = "loop"
    /\ redisUp
    /\ queue # << >>
    /\ Fault
    /\ queue' = Tail(queue)
    /\ Dies(buffer \cup {Head(queue)})
    /\ UNCHANGED <<outside, sender, stored, dead, arrivals, gaveUp>>

\* Variant: every attempt inserts all documents under new _ids.
InsertsAgain ==
    /\ worker = "flush"
    /\ attempt <= MAX_RETRY_ATTEMPTS
    /\ mongoUp
    /\ stored' = Plus(stored, buffer)
    /\ worker' = "loop" /\ buffer' = {} /\ applied' = {} /\ attempt' = 1 /\ due' = FALSE
    /\ UNCHANGED <<outside, faults, sender, queue, dead, arrivals, atRisk, gaveUp>>

\* bulk_write, unordered.  The documents got their _id in the first attempt, so
\* those already there fail with a duplicate key and fail the attempt.
Bulk ==
    /\ worker = "flush"
    /\ attempt <= MAX_RETRY_ATTEMPTS
    /\ mongoUp
    /\ stored' = Plus(stored, buffer \ applied)
    /\ IF applied = {}
       THEN /\ worker' = "loop" /\ buffer' = {} /\ attempt' = 1 /\ due' = FALSE
            /\ UNCHANGED applied
       ELSE /\ applied' = buffer /\ attempt' = attempt + 1
            /\ UNCHANGED <<worker, buffer, due>>
    /\ UNCHANGED <<outside, faults, sender, queue, dead, arrivals, atRisk, gaveUp>>

\* Variant: the attempts are not counted against their limit.
RetriesForever ==
    /\ worker = "flush"
    /\ \/ ~mongoUp /\ UNCHANGED <<faults, applied, stored>>
       \/ /\ mongoUp
          /\ Fault
          /\ \E part \in SUBSET (buffer \ applied) :
                 applied' = applied \cup part /\ stored' = Plus(stored, part)
    /\ attempt' = attempt + 1
    /\ UNCHANGED <<outside, sender, queue, worker, buffer, due, dead, arrivals,
                   atRisk, gaveUp>>

\* The attempt fails: MongoDB is down, or the connection breaks after some of the
\* documents were inserted.
BulkFails ==
    /\ worker = "flush"
    /\ attempt <= MAX_RETRY_ATTEMPTS
    /\ \/ ~mongoUp /\ UNCHANGED <<faults, applied, stored>>
       \/ /\ mongoUp
          /\ Fault
          /\ \E part \in SUBSET (buffer \ applied) :
                 applied' = applied \cup part /\ stored' = Plus(stored, part)
    /\ attempt' = attempt + 1
    /\ UNCHANGED <<outside, sender, queue, worker, buffer, due, dead, arrivals,
                   atRisk, gaveUp>>

\* Variant: the error is swallowed and the worker goes on with an empty buffer.
DropsBatch ==
    /\ worker = "flush"
    /\ attempt > MAX_RETRY_ATTEMPTS
    /\ gaveUp' = gaveUp \cup buffer
    /\ worker' = "loop"
    /\ buffer' = {} /\ applied' = {} /\ attempt' = 1 /\ due' = FALSE
    /\ UNCHANGED <<outside, faults, sender, queue, stored, dead, arrivals, atRisk>>

\* All attempts failed.  The entries were to go to log_queue_dead, but json.dumps
\* raises on the ObjectId that bulk_write put into each: nothing is pushed, the
\* exception leaves worker_loop, and the process ends.
GiveUp ==
    /\ worker = "flush"
    /\ attempt > MAX_RETRY_ATTEMPTS
    /\ gaveUp' = gaveUp \cup buffer
    /\ Dies(buffer)
    /\ UNCHANGED <<outside, faults, sender, queue, stored, dead, arrivals>>

Work == StartWorker \/ Iterate \/ RedisError \/ Bulk \/ BulkFails \/ GiveUp
--------------------------------------------------------------------------------
\* The environment.

FlushIntervalPasses ==
    /\ worker # "down"
    /\ ~due
    /\ due' = TRUE
    /\ UNCHANGED <<outside, faults, sender, queue, worker, buffer, applied, attempt,
                   stored, dead, arrivals, atRisk, gaveUp>>

Kill ==
    /\ worker # "down"
    /\ Fault
    /\ Dies(buffer)
    /\ UNCHANGED <<outside, sender, queue, stored, dead, arrivals, gaveUp>>

\* A server cannot be reached any more, or again; it keeps what it holds.
Outage ==
    /\ Fault
    /\ \/ redisUp' = ~redisUp /\ UNCHANGED mongoUp
       \/ mongoUp' = ~mongoUp /\ UNCHANGED redisUp
    /\ UNCHANGED <<sender, queue, saved, process, stored, dead, arrivals, atRisk, gaveUp,
                   dropped, restored>>

\* Redis saves a snapshot: after a minute with a change in it, or when it is stopped.
Save ==
    /\ saved # queue
    /\ saved' = queue
    /\ UNCHANGED <<redisUp, mongoUp, faults, sender, queue, process, stored, dead,
                   arrivals, atRisk, gaveUp, dropped, restored>>

\* Redis drops the whole list for want of memory.
Evict ==
    /\ queue # << >>
    /\ Fault
    /\ queue' = << >>
    /\ dropped' = dropped \cup Queued
    /\ UNCHANGED <<redisUp, mongoUp, saved, sender, process, stored, dead, arrivals,
                   atRisk, gaveUp, restored>>

\* Redis crashes and loads the snapshot: what was pushed since is lost, what was popped
\* since is back.  A worker in its loop, whose calls follow on each other, fails with it.
RedisCrash ==
    /\ Fault
    /\ redisUp' = FALSE
    /\ queue' = saved
    /\ dropped' = dropped \cup (Queued \ Entries(saved))
    /\ restored' = Plus(restored, Entries(saved) \ Queued)
    /\ IF worker = "loop" THEN Dies(buffer) ELSE UNCHANGED <<process, atRisk>>
    /\ UNCHANGED <<mongoUp, saved, sender, stored, dead, arrivals, gaveUp>>

Next == \/ \E l \in Logs : Push(l) \/ Post(l)
        \/ Work \/ PopLost \/ FlushIntervalPasses \/ Kill
        \/ Outage \/ Save \/ Evict \/ RedisCrash

Spec == Init /\ [][Next]_vars

\* The worker runs whenever it can, its container restarts it, and time passes.
FairSpec == Spec /\ WF_vars(Work) /\ WF_vars(FlushIntervalPasses)
--------------------------------------------------------------------------------
\* Every variable keeps its type; the batch's inserted documents are of the batch.
TypeOK ==
    /\ redisUp \in BOOLEAN /\ mongoUp \in BOOLEAN
    /\ faults \in 0..MaxFaults
    /\ REDIS_AVAILABLE \in BOOLEAN
    /\ stage \in [Logs -> {"new", "primary", "backup", "done", "printed"}]
    /\ queue \in Seq(Logs) /\ saved \in Seq(Logs)
    /\ worker \in {"down", "loop", "flush"}
    /\ buffer \subseteq Logs
    /\ applied \subseteq buffer
    /\ attempt \in 1..(MAX_RETRY_ATTEMPTS + 1)
    /\ due \in BOOLEAN
    /\ stored \in [Logs -> Nat] /\ arrivals \in [Logs -> Nat]
    /\ dead \subseteq Logs /\ atRisk \subseteq Logs /\ gaveUp \subseteq Logs
    /\ dropped \subseteq Logs /\ restored \in [Logs -> Nat]

\* The copies of an entry that still wait to be stored: in the queue, or in the
\* worker's buffer without a document yet.
Waiting(l) == (IF l \in Queued THEN 1 ELSE 0) + (IF l \in buffer \ applied THEN 1 ELSE 0)

\* Retries never store an entry twice: MongoDB holds at most one document for each
\* push or post that arrived and each time a snapshot of Redis brought the entry back,
\* what still waits counted in; and what arrived is three at the most, the push and a
\* post to either logging service, however much is lost or late.
NoCopyFromRetries ==
    \A l \in Logs : /\ stored[l] + Waiting(l) <= arrivals[l] + restored[l]
                    /\ arrivals[l] <= 3

\* Nothing else loses an entry than a death of the worker with the entry in its hands or
\* of the list in Redis: without these each push or post of it, and each copy that came
\* back, is waiting or has its document.
LossHasACause ==
    \A l \in Logs : l \notin atRisk \cup dropped
                        => stored[l] + Waiting(l) >= arrivals[l] + restored[l]

Delivery == INSTANCE LogDelivery WITH waiting <- [l \in Logs |-> Waiting(l)]

\* Queue, worker, retries and HTTP fallback together deliver as LogDelivery says: step
\* by step, a copy that waits is stored once or lost in a crash, of the worker that has
\* it or of Redis, and only a snapshot of Redis makes a copy of it.
ImplementsDelivery == Delivery!Spec

\* What is in Redis gets to MongoDB in the end, once Redis and MongoDB stay up, unless
\* Redis loses it or it is handed to a worker that dies with it.
QueueDrains ==
    \A l \in Logs :
        <>[](redisUp /\ mongoUp) /\ <>(l \in Queued)
            => <>(stored[l] > 0 \/ l \in atRisk \cup dropped)

\* The comment in flush_batch ("After retries failed: put back into dead-letter
\* key"): entries of a batch that failed for good are in log_queue_dead.
FailedAreDeadLettered == gaveUp \subseteq dead
================================================================================
