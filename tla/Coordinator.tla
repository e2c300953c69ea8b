------------------------------ MODULE Coordinator ------------------------------
(***************************************************************************)
(* The master coordinator: the health monitor thread that polls every      *)
(* service, moves the active endpoint of a service to its backup after     *)
(* three failed polls and back at the first good one, the handlers that    *)
(* share its state, and the environment it polls: services that come and   *)
(* go, the Redis registry that says where they are, a restart of the       *)
(* coordinator itself.                                                     *)
(*                                                                         *)
(* A URL "http://host:port" is the record [svc, host]: every name has its  *)
(* own port.  `services` and `active` are total: an absent key is the      *)
(* status "absent" and the endpoint NoUrl.                                 *)
(***************************************************************************)
EXTENDS Naturals, Sequences, FiniteSets

CONSTANTS
    Ports,        \* the keys of PORTS: the names polled in every round
    Extra,        \* names outside PORTS that may have a registry key
    FailoverMap,  \* FAILOVER_MAP: name -> name of its backup
    Hosts,        \* host addresses found in registry entries and <NAME>_HOST
    Dns, NoHost,  \* the Docker DNS name of a service; no address at all
    EnvHost,      \* <NAME>_URL or <NAME>_HOST of the coordinator's environment
    NoUrl,        \* no entry in _active_endpoints
    FailCap,      \* bound: fail_count is counted up to FailCap
    MaxEvents     \* bound: steps of the environment, POSTs and restarts

Names     == Ports \cup Extra
Mapped    == DOMAIN FailoverMap
Url       == [svc : Names, host : Hosts \cup {Dns}]
\* Variant: one failed poll fewer is enough.
TwoMisses == 2

Threshold == 3

\* A name outside PORTS registers port 0, where nothing ever answers.
Reachable == {u \in Url : u.svc \in Ports}

ASSUME CoordinatorAssumption ==
    /\ FailoverMap \in [Mapped -> Ports]
    /\ Mapped \subseteq Ports
    /\ \A n \in Mapped : FailoverMap[n] \notin Mapped
    /\ EnvHost \in [Names -> Hosts \cup {NoHost}]
    /\ NoHost \notin Hosts \cup {Dns}
    /\ NoUrl \notin Url
    /\ FailCap \in Nat /\ FailCap >= Threshold
    /\ MaxEvents \in Nat

VARIABLES
    up,           \* the URLs whose /health answers 200 within the timeout
    reg,          \* the registry key of each name: its host, or NoHost
    redisUp,      \* Redis answers
    overload,     \* LLEN sdls:log_queue > 5000
    left,         \* environment steps still allowed
    pc,           \* where the monitor thread is
    service_map,  \* the monitor's local: the URL to poll for each name
    todo,         \* the names of this round not polled yet
    services,     \* _cluster_state["services"]
    active,       \* _active_endpoints
    failovers,    \* _cluster_state["failovers"]
    high_load,    \* _cluster_state["high_load"]
    topology,     \* the key sdls:topology exists in Redis
    REDIS_OK,     \* the module flag, fixed when the process starts
    streak        \* history: failed polls in a row seen by this process

env   == <<up, reg, redisUp, overload, left>>
state == <<services, active, failovers, streak>>
vars  == <<env, pc, service_map, todo, state, high_load, topology, REDIS_OK>>

NoEntry == [status |-> "absent", fail_count |-> 0, active_url |-> NoUrl]

Entry == [status     : {"absent", "registered", "healthy", "unreachable"},
          fail_count : 0..FailCap,
          active_url : Url \cup {NoUrl}]

Event == [event : {"restored", "failover"}, service : Mapped, url : Url]

Count(k) == IF k < FailCap THEN k + 1 ELSE k

\* A failed read of the registry and an absent key look the same.
KeyOf(n) == IF redisUp THEN reg[n] ELSE NoHost

\* get_service_url: the environment first, then the registry, then DNS.
ServiceUrl(n) ==
    [svc  |-> n,
     host |-> IF EnvHost[n] # NoHost THEN EnvHost[n]
              ELSE IF KeyOf(n) # NoHost THEN KeyOf(n) ELSE Dns]

\* Variant: no fallback for a name without a key.
PolledByKeyAlone(n) == [svc |-> n, host |-> KeyOf(n)]

\* The monitor's own table prefers the registry to the environment.
PolledUrl(n) == IF KeyOf(n) # NoHost THEN [svc |-> n, host |-> KeyOf(n)]
                ELSE ServiceUrl(n)

\* GET /api/cluster/endpoint/<n>, which takes no lock.
ActiveEndpoint(n) == IF n \in Mapped /\ active[n] # NoUrl THEN active[n]
                     ELSE ServiceUrl(n)

Init ==
    /\ up \in SUBSET Reachable
    /\ reg \in [Names -> Hosts \cup {NoHost}]
    /\ redisUp \in BOOLEAN
    /\ overload \in BOOLEAN
    /\ left = MaxEvents
    /\ topology = FALSE
    /\ pc = "sleep"
    /\ service_map = [n \in Names |-> NoUrl]
    /\ todo = {}
    /\ services = [n \in Names |-> NoEntry]
    /\ active = [n \in Mapped |-> NoUrl]
    /\ failovers = << >>
    /\ high_load = FALSE
    /\ REDIS_OK = redisUp
    /\ streak = [n \in Names |-> 0]
--------------------------------------------------------------------------------
\* The monitor thread.

\* Lines 54-61: read the registry, build service_map, take the lock.
StartRound ==
    /\ pc = "sleep"
    /\ service_map' = [n \in Names |-> PolledUrl(n)]
    /\ todo' = Ports \cup {n \in Extra : KeyOf(n) # NoHost}
    /\ pc' = "sweep"
    /\ UNCHANGED <<env, state, high_load, topology, REDIS_OK>>

\* Variant: a return to the primary leaves no event.
SwitchesBackSilently(n, url, what) ==
    /\ active' = [active EXCEPT ![n] = url]
    /\ failovers' = IF active[n] = url \/ what = "restored" THEN failovers
                    ELSE Append(failovers,
                                [event |-> what, service |-> n, url |-> url])

\* Variant: every failed poll is an event, not every change.
ReportsEveryPoll(n, url, what) ==
    /\ active' = [active EXCEPT ![n] = url]
    /\ failovers' = Append(failovers, [event |-> what, service |-> n, url |-> url])

SetEndpoint(n, url, what) ==
    IF active[n] # url
    THEN /\ active' = [active EXCEPT ![n] = url]
         /\ failovers' = Append(failovers,
                                [event |-> what, service |-> n, url |-> url])
    ELSE UNCHANGED <<active, failovers>>

\* Variant: the entry is written before the endpoint is moved.
RecordFirst(n, status, fail_count) ==
    services' = [services EXCEPT ![n] =
        [status |-> status, fail_count |-> fail_count,
         active_url |-> IF n \in Mapped /\ active[n] # NoUrl THEN active[n]
                        ELSE service_map[n]]]

Record(n, status, fail_count) ==
    services' = [services EXCEPT ![n] =
        [status |-> status, fail_count |-> fail_count,
         active_url |-> IF n \in Mapped /\ active'[n] # NoUrl THEN active'[n]
                        ELSE service_map[n]]]

\* Variant: a good poll does not take the route back.
StaysOnBackup(n) ==
    /\ service_map[n] \in up
    /\ IF n \in Mapped /\ active[n] = NoUrl
       THEN SetEndpoint(n, service_map[n], "restored")
       ELSE UNCHANGED <<active, failovers>>
    /\ Record(n, "healthy", 0)
    /\ streak' = [streak EXCEPT ![n] = 0]

ProbeHealthy(n) ==
    /\ service_map[n] \in up
    /\ IF n \in Mapped THEN SetEndpoint(n, service_map[n], "restored")
       ELSE UNCHANGED <<active, failovers>>
    /\ Record(n, "healthy", 0)
    /\ streak' = [streak EXCEPT ![n] = 0]

\* Variant: an endpoint once set is never moved to the backup.
FailsOverOnlyAtFirst(n) ==
    LET fail_count == Count(services[n].fail_count)
    IN  /\ service_map[n] \notin up
        /\ IF fail_count >= Threshold /\ n \in Mapped /\ active[n] = NoUrl
           THEN SetEndpoint(n, ServiceUrl(FailoverMap[n]), "failover")
           ELSE UNCHANGED <<active, failovers>>
        /\ Record(n, "unreachable", fail_count)
        /\ streak' = [streak EXCEPT ![n] = Count(@)]

ProbeUnreachable(n) ==
    LET fail_count == Count(services[n].fail_count)
    IN  /\ service_map[n] \notin up
        /\ IF fail_count >= Threshold /\ n \in Mapped
           THEN SetEndpoint(n, ServiceUrl(FailoverMap[n]), "failover")
           ELSE UNCHANGED <<active, failovers>>
        /\ Record(n, "unreachable", fail_count)
        /\ streak' = [streak EXCEPT ![n] = Count(@)]

Probe(n) ==
    /\ pc = "sweep"
    /\ n \in todo
    /\ ProbeHealthy(n) \/ ProbeUnreachable(n)
    /\ todo' = todo \ {n}
    /\ pc' = IF todo' = {} THEN "load" ELSE "sweep"
    /\ UNCHANGED <<env, service_map, high_load, topology, REDIS_OK>>

SampleLoad ==
    /\ pc = "load"
    /\ high_load' = IF REDIS_OK /\ redisUp THEN overload ELSE high_load
    /\ pc' = "publish"
    /\ UNCHANGED <<env, service_map, todo, state, topology, REDIS_OK>>

\* Variant: nothing is published while the log queue is overloaded.
PublishesWhenIdle ==
    /\ pc = "publish"
    /\ topology' = (topology \/ (REDIS_OK /\ redisUp /\ ~high_load))
    /\ pc' = "sleep"
    /\ UNCHANGED <<env, service_map, todo, state, high_load, REDIS_OK>>

Publish ==
    /\ pc = "publish"
    /\ topology' = (topology \/ (REDIS_OK /\ redisUp))
    /\ pc' = "sleep"
    /\ UNCHANGED <<env, service_map, todo, state, high_load, REDIS_OK>>

Monitor == StartRound \/ (\E n \in Names : Probe(n)) \/ SampleLoad \/ Publish
--------------------------------------------------------------------------------
\* The handlers that change state, and the world around the coordinator.

Spend == left > 0 /\ left' = left - 1

LockFree == pc = "sleep"

\* POST /api/cluster/register: the whole entry is replaced.
RegisterService(n) ==
    /\ Spend
    /\ LockFree
    /\ services' = [services EXCEPT ![n] = [NoEntry EXCEPT !.status = "registered"]]
    /\ UNCHANGED <<up, reg, redisUp, overload, pc, service_map, todo, active,
                   failovers, streak, high_load, topology, REDIS_OK>>

\* The coordinator's process dies, anywhere, and its container restarts it.
Restart ==
    /\ Spend
    /\ pc' = "sleep"
    /\ service_map' = [n \in Names |-> NoUrl]
    /\ todo' = {}
    /\ services' = [n \in Names |-> NoEntry]
    /\ active' = [n \in Mapped |-> NoUrl]
    /\ failovers' = << >>
    /\ high_load' = FALSE
    /\ REDIS_OK' = redisUp
    /\ streak' = [n \in Names |-> 0]
    /\ UNCHANGED <<up, reg, redisUp, overload, topology>>

FlipUrl(u) ==
    /\ Spend
    /\ up' = IF u \in up THEN up \ {u} ELSE up \cup {u}
    /\ UNCHANGED <<reg, redisUp, overload>>

FlipKey(n) ==
    /\ Spend
    /\ \E h \in (Hosts \cup {NoHost}) \ {reg[n]} : reg' = [reg EXCEPT ![n] = h]
    /\ UNCHANGED <<up, redisUp, overload>>

FlipRedis == Spend /\ redisUp' = ~redisUp /\ UNCHANGED <<up, reg, overload>>

FlipLoad == Spend /\ overload' = ~overload /\ UNCHANGED <<up, reg, redisUp>>

World ==
    /\ (\E u \in Reachable : FlipUrl(u)) \/ (\E n \in Names : FlipKey(n))
        \/ FlipRedis \/ FlipLoad
    /\ UNCHANGED <<pc, service_map, todo, state, high_load, topology, REDIS_OK>>

\* The published key outlives its 30 s: a round of unreachable services and
\* the pause after it may take longer than that.
TopologyExpires ==
    /\ topology
    /\ topology' = FALSE
    /\ UNCHANGED <<env, pc, service_map, todo, state, high_load, REDIS_OK>>

Next == Monitor \/ (\E n \in Names : RegisterService(n)) \/ Restart \/ World
            \/ TopologyExpires

Spec == Init /\ [][Next]_vars

FairSpec == Spec /\ WF_vars(Monitor)
--------------------------------------------------------------------------------
\* Properties.

\* Every variable keeps its type (entries, endpoints and events are well formed).
TypeOK ==
    /\ up \subseteq Reachable
    /\ reg \in [Names -> Hosts \cup {NoHost}]
    /\ redisUp \in BOOLEAN /\ overload \in BOOLEAN
    /\ left \in 0..MaxEvents
    /\ pc \in {"sleep", "sweep", "load", "publish"}
    /\ service_map \in [Names -> Url \cup {NoUrl}]
    /\ todo \subseteq Names
    /\ services \in [Names -> Entry]
    /\ active \in [Mapped -> Url \cup {NoUrl}]
    /\ failovers \in Seq(Event)
    /\ high_load \in BOOLEAN /\ topology \in BOOLEAN /\ REDIS_OK \in BOOLEAN
    /\ streak \in [Names -> 0..FailCap]

OnBackup(n)  == active[n] # NoUrl /\ active[n].svc = FailoverMap[n]
OnPrimary(n) == active[n] # NoUrl /\ active[n].svc = n

\* Callers are routed to a backup only while the primary has missed at least
\* three polls in a row: one answered poll takes the route back, and neither a
\* registration in between nor a restart can leave a backup route behind.
BackupAfterThreeMisses == \A n \in Mapped : OnBackup(n) => streak[n] >= Threshold

\* The entry the dashboard shows and the endpoint callers are given agree: a
\* healthy service is routed to itself, one shown with three failed polls to its
\* backup, and a polled entry names the very URL that is served.
EntryAgreesWithRoute ==
    \A n \in Mapped :
        /\ services[n].status = "healthy" => OnPrimary(n)
        /\ services[n].fail_count >= Threshold => OnBackup(n)
        /\ services[n].status \in {"healthy", "unreachable"} /\ active[n] # NoUrl
               => services[n].active_url = active[n]

\* fail_count never claims more failed polls in a row than there were, whatever
\* registrations and restarts come between them.
CountNeverOverstates == \A n \in Names : services[n].fail_count <= streak[n]

EventsOf(n) == {i \in DOMAIN failovers : failovers[i].service = n}

IsLast(i, n) == i \in EventsOf(n) /\ \A j \in EventsOf(n) : j <= i

\* The timeline of a service explains its route: no event, no endpoint, and the
\* last event names the endpoint in force and the reason for it.
TimelineExplainsRoute ==
    \A n \in Mapped :
        /\ active[n] = NoUrl <=> EventsOf(n) = {}
        /\ \A i \in EventsOf(n) : IsLast(i, n) =>
               /\ failovers[i].url = active[n]
               /\ failovers[i].event = IF OnBackup(n) THEN "failover" ELSE "restored"

\* An outage is reported once: two events of a service with none of its own in
\* between always differ, however many rounds the service stays down.
TimelineNeverRepeats ==
    \A n \in Mapped : \A i, j \in EventsOf(n) :
        i < j /\ (\A k \in EventsOf(n) : k <= i \/ j <= k)
            => failovers[i] # failovers[j]

\* Seen by callers, the coordinator is the failure detector of FailoverRouting.
Routing == INSTANCE FailoverRouting WITH
    Services  <- Mapped,
    Threshold <- 3,
    MissCap   <- FailCap,
    route     <- [n \in Mapped |-> IF active[n] = NoUrl THEN "default"
                                   ELSE IF active[n].svc = n THEN "primary"
                                   ELSE "backup"],
    misses    <- [n \in Mapped |-> streak[n]],
    counted   <- [n \in Mapped |-> services[n].fail_count]

\* Callers see a failure detector that leaves the primary with the third miss in a row
\* since the service last registered, and returns to it at the first answer.
ImplementsRouting == Routing!Spec

Dead(n)  == \A u \in up : u.svc # n
Alive(n) == \A h \in Hosts \cup {Dns} : [svc |-> n, host |-> h] \in up

\* A service that stays down ends up routed to its backup, at the address the
\* backup resolves to, once the environment settles.
FailoverHappens ==
    \A n \in Mapped : <>[]Dead(n) => <>[](ActiveEndpoint(n) = ServiceUrl(FailoverMap[n]))

\* A service that stays up ends up routed to the address it is polled at.
FailbackHappens ==
    \A n \in Mapped : <>[]Alive(n) => <>[](ActiveEndpoint(n) = PolledUrl(n))

\* A coordinator that found Redis when it started keeps publishing the topology.
TopologyRepublished == <>[](redisUp /\ REDIS_OK) => []<>topology
================================================================================
