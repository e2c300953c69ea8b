-------------------------------- MODULE Registry --------------------------------
(***************************************************************************)
(* The Redis node registry: every process registers its service's key once, *)
(* when it starts, and a heartbeat thread then keeps extending the key's    *)
(* life.  Processes start and die, Redis goes away and comes back, keys     *)
(* expire, and may be lost.                                                 *)
(*                                                                          *)
(* Time is discrete.  Nothing reads an absolute clock, so what is kept is   *)
(* how long ago things happened, each up to the last value that matters.    *)
(***************************************************************************)
EXTENDS Naturals

CONSTANTS
    Services,    \* names of services: the registry keys
    Inst,        \* processes; two of one service run on different hosts
    ServiceOf,   \* Inst -> Services
    TTL,         \* REGISTRY_TTL
    HB,          \* HEARTBEAT_INTERVAL
    Slack,       \* bound: how late a heartbeat thread may wake up
    MaxOutage,   \* bound: the longest Redis outage
    MinUptime,   \* bound: the shortest time between two outages
    None         \* no such key

ASSUME RegistryAssumption ==
    /\ ServiceOf \in [Inst -> Services]
    /\ TTL \in Nat \ {0} /\ HB \in Nat \ {0} /\ Slack \in Nat
    /\ MaxOutage \in Nat /\ MinUptime \in Nat
    /\ None \notin Inst

VARIABLES
    redisUp,  \* Redis answers
    since,    \* time since Redis last went down or came back, up to SinceMax
    key,      \* the value of each key: the process (its host) that wrote it
    age,      \* time since the key was written or refreshed; TTL: expired
    alive,    \* the processes that run
    listed,   \* the return value of the process's register_self
    slept,    \* time since its heartbeat thread fell asleep
    lost,     \* history: Redis dropped the key since it was last written
    missed,   \* history: its last heartbeat did not reach Redis
    deadFor   \* history: time since the process died, up to TTL

vars == <<redisUp, since, key, age, alive, listed, slept, lost, missed, deadFor>>

Late     == HB + Slack   \* a heartbeat never comes later than this
SinceMax == MaxOutage + MinUptime

Older(t, bound) == IF t < bound THEN t + 1 ELSE t

Init ==
    /\ redisUp \in BOOLEAN
    /\ since = 0
    /\ key = [n \in Services |-> None]
    /\ age = [n \in Services |-> TTL]
    /\ alive = {}
    /\ listed = [i \in Inst |-> FALSE]
    /\ slept = [i \in Inst |-> 0]
    /\ lost = [n \in Services |-> FALSE]
    /\ missed = [i \in Inst |-> FALSE]
    /\ deadFor = [i \in Inst |-> TTL]
--------------------------------------------------------------------------------
\* A process starts: register_self, whose failure it ignores, then start_heartbeat.
Start(i) ==
    LET n == ServiceOf[i]
    IN  /\ i \notin alive
        /\ alive' = alive \cup {i}
        /\ listed' = [listed EXCEPT ![i] = redisUp]
        /\ key' = IF redisUp THEN [key EXCEPT ![n] = i] ELSE key
        /\ age' = IF redisUp THEN [age EXCEPT ![n] = 0] ELSE age
        /\ slept' = [slept EXCEPT ![i] = 0]
        /\ lost' = [lost EXCEPT ![n] = @ /\ ~redisUp]
        /\ missed' = [missed EXCEPT ![i] = FALSE]
        /\ deadFor' = [deadFor EXCEPT ![i] = 0]
        /\ UNCHANGED <<redisUp, since>>

\* It dies, or is stopped: no service calls deregister.
Die(i) ==
    /\ i \in alive
    /\ alive' = alive \ {i}
    /\ slept' = [slept EXCEPT ![i] = 0]
    /\ UNCHANGED <<redisUp, since, key, age, listed, lost, missed, deadFor>>

\* Variant: a refresh gives life to a key that is gone.
BeatsForNoKey(i) ==
    LET n == ServiceOf[i]
    IN  /\ i \in alive
        /\ slept[i] >= HB
        /\ slept' = [slept EXCEPT ![i] = 0]
        /\ age' = IF redisUp THEN [age EXCEPT ![n] = 0] ELSE age
        /\ missed' = [missed EXCEPT ![i] = ~redisUp]
        /\ UNCHANGED <<redisUp, since, key, alive, listed, lost, deadFor>>

\* Variant: the first error of Redis ends the heartbeat thread.
BeatsUntilAnError(i) ==
    LET n == ServiceOf[i]
    IN  /\ i \in alive
        /\ slept[i] >= HB
        /\ slept' = [slept EXCEPT ![i] = 0]
        /\ age' = IF redisUp /\ key[n] # None /\ ~missed[i] THEN [age EXCEPT ![n] = 0]
                  ELSE age
        /\ missed' = [missed EXCEPT ![i] = @ \/ ~redisUp]
        /\ UNCHANGED <<redisUp, since, key, alive, listed, lost, deadFor>>

\* Variant: the heartbeat thread is no daemon, and outlives its service.
BeatsAfterDeath(i) ==
    LET n == ServiceOf[i]
    IN  /\ i \in alive => slept[i] >= HB
        /\ slept' = [slept EXCEPT ![i] = 0]
        /\ age' = IF redisUp /\ key[n] # None THEN [age EXCEPT ![n] = 0] ELSE age
        /\ missed' = [missed EXCEPT ![i] = ~redisUp]
        /\ UNCHANGED <<redisUp, since, key, alive, listed, lost, deadFor>>

\* refresh_ttl: EXPIRE does nothing to a key that is gone, and errors are dropped.
Beat(i) ==
    LET n == ServiceOf[i]
    IN  /\ i \in alive
        /\ slept[i] >= HB
        /\ slept' = [slept EXCEPT ![i] = 0]
        /\ age' = IF redisUp /\ key[n] # None THEN [age EXCEPT ![n] = 0] ELSE age
        /\ missed' = [missed EXCEPT ![i] = ~redisUp]
        /\ UNCHANGED <<redisUp, since, key, alive, listed, lost, deadFor>>

\* One unit of time.  No thread oversleeps, and no outage outlasts its bound.
Tick ==
    /\ \A i \in alive : slept[i] < Late
    /\ redisUp \/ since < MaxOutage
    /\ since' = Older(since, SinceMax)
    /\ slept' = [i \in Inst |-> IF i \in alive THEN slept[i] + 1 ELSE 0]
    /\ age' = [n \in Services |-> Older(age[n], TTL)]
    /\ key' = [n \in Services |-> IF age'[n] = TTL THEN None ELSE key[n]]
    /\ deadFor' = [i \in Inst |-> IF i \in alive THEN 0 ELSE Older(deadFor[i], TTL)]
    /\ UNCHANGED <<redisUp, alive, listed, lost, missed>>

RedisDown == /\ redisUp
             /\ since >= MinUptime
             /\ redisUp' = FALSE
             /\ since' = 0
             /\ UNCHANGED <<key, age, alive, listed, slept, lost, missed, deadFor>>

RedisBack == /\ ~redisUp
             /\ redisUp' = TRUE
             /\ since' = 0
             /\ UNCHANGED <<key, age, alive, listed, slept, lost, missed, deadFor>>

\* Eviction under memory pressure, or a crash of Redis before it saved the key.
LoseKey(n) == /\ key[n] # None
              /\ key' = [key EXCEPT ![n] = None]
              /\ age' = [age EXCEPT ![n] = TTL]
              /\ lost' = [lost EXCEPT ![n] = TRUE]
              /\ UNCHANGED <<redisUp, since, alive, listed, slept, missed, deadFor>>

Beats == \E i \in Inst : Beat(i)

Next == \/ \E i \in Inst : Start(i) \/ Die(i)
        \/ Beats \/ Tick \/ RedisDown \/ RedisBack
        \/ \E n \in Services : LoseKey(n)

Spec == Init /\ [][Next]_vars

\* Time passes, sleeping threads wake up, and outages end.
FairSpec == Spec /\ WF_vars(Tick) /\ WF_vars(Beats) /\ WF_vars(RedisBack)
--------------------------------------------------------------------------------
\* Every variable keeps its type, and a key is there as long as it has not expired.
TypeOK ==
    /\ redisUp \in BOOLEAN
    /\ since \in 0..SinceMax
    /\ key \in [Services -> Inst \cup {None}]
    /\ age \in [Services -> 0..TTL]
    /\ alive \subseteq Inst
    /\ listed \in [Inst -> BOOLEAN]
    /\ slept \in [Inst -> 0..Late]
    /\ lost \in [Services -> BOOLEAN]
    /\ missed \in [Inst -> BOOLEAN]
    /\ deadFor \in [Inst -> 0..TTL]
    /\ \A n \in Services : key[n] = None <=> age[n] = TTL

\* What TTL = 3 heartbeats buys: an outage is over within MaxOutage, and between
\* two outages every process beats at least once.
Tolerable == /\ MinUptime > Late
             /\ MaxOutage + Late + Late < TTL

\* While a process that registered with success lives, its service has its key, through
\* any number of outages of Redis that fit between its heartbeats, unless Redis drops the
\* key.  (The key may name another process of the service, even a dead one; a process
\* whose registration failed is promised nothing.)
LiveStaysListed ==
    Tolerable => \A i \in alive :
        listed[i] /\ ~lost[ServiceOf[i]] => key[ServiceOf[i]] # None

Gone(n) == \A i \in Inst : ServiceOf[i] = n => i \notin alive /\ deadFor[i] = TTL

\* A service none of whose processes has run for TTL has left the registry.
DeadServiceExpires == \A n \in Services : Gone(n) => key[n] = None
================================================================================
