--------------------------- MODULE CoordinatorProofs ---------------------------
(***************************************************************************)
(* Theorems about Coordinator, for every set of names, every failover map, *)
(* every environment and every bound.                                      *)
(***************************************************************************)
EXTENDS Coordinator, TLAPS

USE DEF Names, Mapped

\* In a sweep the monitor polls each name at a URL of that very name.
SweepMap == pc = "sweep" => \A n \in Names : /\ service_map[n] \in Url
                                             /\ service_map[n].svc = n

\* Whatever the registry and the environment say, a name resolves to a URL of its
\* own (get_service_url, and the merge with the registry in the monitor's loop).
LEMMA Addresses ==
    ASSUME TypeOK, NEW n \in Names
    PROVE  /\ ServiceUrl(n) \in Url /\ ServiceUrl(n).svc = n
           /\ PolledUrl(n) \in Url /\ PolledUrl(n).svc = n
<1>1. KeyOf(n) \in Hosts \cup {NoHost}
  BY DEF TypeOK, KeyOf
<1>2. EnvHost[n] \in Hosts \cup {NoHost}
  BY CoordinatorAssumption
<1> QED
  BY <1>1, <1>2 DEF ServiceUrl, PolledUrl, Url

\* Saturating increments stay within the bound and reach the threshold with it.
LEMMA Counting ==
    ASSUME NEW k \in 0..FailCap
    PROVE  /\ Count(k) \in 0..FailCap
           /\ k <= Count(k)
           /\ \A m \in 0..FailCap : m <= k => Count(m) <= Count(k)
  BY CoordinatorAssumption DEF Count, Threshold
--------------------------------------------------------------------------------
\* Type correctness.

TypeInv == TypeOK /\ SweepMap

LEMMA TypeInit == Init => TypeInv
<1> SUFFICES ASSUME Init PROVE TypeInv
  OBVIOUS
<1>1. NoEntry \in Entry
  BY CoordinatorAssumption DEF NoEntry, Entry
<1>2. << >> \in Seq(Event)
  OBVIOUS
<1>3. 0 \in 0..FailCap /\ MaxEvents \in 0..MaxEvents
  BY CoordinatorAssumption
<1>4. TypeOK
  BY ZenonT(30), <1>1, <1>2, <1>3 DEF Init, TypeOK
<1>5. SweepMap
  BY DEF Init, SweepMap
<1> QED
  BY <1>4, <1>5 DEF TypeInv

\* What one poll may do to the endpoint and the timeline of the polled name.
LEMMA EndpointStep ==
    ASSUME TypeOK, NEW n \in Mapped, NEW url \in Url,
           NEW what \in {"restored", "failover"}, SetEndpoint(n, url, what)
    PROVE  /\ active' = [active EXCEPT ![n] = url]
           /\ active' \in [Mapped -> Url \cup {NoUrl}]
           /\ failovers' \in Seq(Event)
<1>1. active \in [Mapped -> Url \cup {NoUrl}] /\ failovers \in Seq(Event)
  BY DEF TypeOK
<1>2. [event |-> what, service |-> n, url |-> url] \in Event
  BY DEF Event
<1>3. CASE active[n] = url
  BY <1>1, <1>3 DEF SetEndpoint
<1>4. CASE active[n] # url
  BY <1>1, <1>2, <1>4 DEF SetEndpoint
<1> QED
  BY <1>3, <1>4

\* The complete effect of polling n, with the URL it is routed to afterwards.
LEMMA PollStep ==
    ASSUME TypeInv, NEW n \in Names, Probe(n)
    PROVE  /\ active' \in [Mapped -> Url \cup {NoUrl}]
           /\ \A m \in Mapped : m # n => active'[m] = active[m]
           /\ failovers' \in Seq(Event)
           /\ \/ /\ streak' = [streak EXCEPT ![n] = 0]
                 /\ services' = [services EXCEPT ![n] =
                        [status |-> "healthy", fail_count |-> 0,
                         active_url |-> IF n \in Mapped THEN active'[n] ELSE service_map[n]]]
                 /\ n \in Mapped => active'[n] = service_map[n]
              \/ /\ streak' = [streak EXCEPT ![n] = Count(streak[n])]
                 /\ services' = [services EXCEPT ![n] =
                        [status |-> "unreachable", fail_count |-> Count(services[n].fail_count),
                         active_url |-> IF n \in Mapped /\ active'[n] # NoUrl THEN active'[n]
                                        ELSE service_map[n]]]
                 /\ n \in Mapped => IF Count(services[n].fail_count) >= Threshold
                                    THEN active'[n] = ServiceUrl(FailoverMap[n])
                                    ELSE active'[n] = active[n]
<1> USE DEF TypeInv
<1>1. active \in [Mapped -> Url \cup {NoUrl}] /\ failovers \in Seq(Event)
  BY DEF TypeOK
<1>2. service_map[n] \in Url
  BY DEF Probe, SweepMap
<1>3. CASE ProbeHealthy(n)
  <2>1. CASE n \in Mapped
    <3>1. SetEndpoint(n, service_map[n], "restored")
      BY <1>3, <2>1 DEF ProbeHealthy
    <3>2. /\ active' = [active EXCEPT ![n] = service_map[n]]
          /\ active' \in [Mapped -> Url \cup {NoUrl}]
          /\ failovers' \in Seq(Event)
      BY <1>2, <2>1, <3>1, EndpointStep
    <3> QED
      BY <1>1, <1>2, <1>3, <2>1, <3>2, CoordinatorAssumption DEF ProbeHealthy, Record
  <2>2. CASE n \notin Mapped
    BY <1>1, <1>3, <2>2 DEF ProbeHealthy, Record
  <2> QED
    BY <2>1, <2>2
<1>4. CASE ProbeUnreachable(n)
  <2> DEFINE k == Count(services[n].fail_count)
  <2>1. CASE k >= Threshold /\ n \in Mapped
    <3>1. SetEndpoint(n, ServiceUrl(FailoverMap[n]), "failover")
      BY <1>4, <2>1 DEF ProbeUnreachable
    <3>2. ServiceUrl(FailoverMap[n]) \in Url
      BY <2>1, Addresses, CoordinatorAssumption
    <3>3. /\ active' = [active EXCEPT ![n] = ServiceUrl(FailoverMap[n])]
          /\ active' \in [Mapped -> Url \cup {NoUrl}]
          /\ failovers' \in Seq(Event)
      BY <2>1, <3>1, <3>2, EndpointStep
    <3> QED
      BY <1>1, <1>4, <2>1, <3>3 DEF ProbeUnreachable, Record
  <2>2. CASE ~(k >= Threshold /\ n \in Mapped)
    BY <1>1, <1>4, <2>2 DEF ProbeUnreachable, Record
  <2> QED
    BY <2>1, <2>2
<1> QED
  BY <1>3, <1>4 DEF Probe

LEMMA TypeStep == TypeInv /\ [Next]_vars => TypeInv'
<1> SUFFICES ASSUME TypeInv, [Next]_vars PROVE TypeInv'
  OBVIOUS
<1> USE DEF TypeInv
<1>0. NoEntry \in Entry /\ [NoEntry EXCEPT !.status = "registered"] \in Entry
  BY CoordinatorAssumption DEF NoEntry, Entry
<1>1. CASE StartRound
  <2>1. \A n \in Names : PolledUrl(n) \in Url /\ PolledUrl(n).svc = n
    BY Addresses
  <2>2. service_map' \in [Names -> Url \cup {NoUrl}] /\ SweepMap'
    BY <1>1, <2>1 DEF StartRound, SweepMap
  <2>3. todo' \subseteq Names
    BY <1>1 DEF StartRound
  <2> QED
    BY <1>1, <2>2, <2>3, ZenonT(30) DEF StartRound, TypeOK, env, state
<1>2. ASSUME NEW n \in Names, Probe(n) PROVE TypeInv'
  <2>1. /\ active' \in [Mapped -> Url \cup {NoUrl}]
        /\ failovers' \in Seq(Event)
    BY <1>2, PollStep
  <2>2. Count(services[n].fail_count) \in 0..FailCap /\ Count(streak[n]) \in 0..FailCap
    <3>1. services[n].fail_count \in 0..FailCap /\ streak[n] \in 0..FailCap
      BY DEF TypeOK, Entry
    <3> QED
      BY <3>1, Counting
  <2>3. service_map[n] \in Url
    BY <1>2 DEF Probe, SweepMap
  <2>4. 0 \in 0..FailCap
    BY CoordinatorAssumption
  <2>5. streak' \in [Names -> 0..FailCap] /\ services' \in [Names -> Entry]
    <3>1. streak \in [Names -> 0..FailCap] /\ services \in [Names -> Entry]
      BY DEF TypeOK
    <3>2. n \in Mapped => active'[n] \in Url \cup {NoUrl}
      BY <2>1
    <3>3. \E k \in 0..FailCap : streak' = [streak EXCEPT ![n] = k]
      BY <1>2, <2>2, <2>4, PollStep
    <3>4. \E e \in Entry : services' = [services EXCEPT ![n] = e]
      BY <1>2, <2>2, <2>3, <2>4, <3>2, PollStep DEF Entry
    <3> QED
      BY <3>1, <3>3, <3>4
  <2>6. todo' \subseteq Names /\ pc' \in {"sweep", "load"}
    BY <1>2 DEF Probe, TypeOK
  <2>7. SweepMap'
    BY <1>2 DEF Probe, SweepMap
  <2> QED
    BY <1>2, <2>1, <2>5, <2>6, <2>7, ZenonT(30) DEF Probe, TypeOK, env
<1>3. CASE SampleLoad
  BY <1>3, ZenonT(30) DEF SampleLoad, TypeOK, SweepMap, env, state
<1>4. CASE Publish
  BY <1>4, ZenonT(30) DEF Publish, TypeOK, SweepMap, env, state
<1>5. Spend => left' \in 0..MaxEvents
  BY CoordinatorAssumption DEF Spend, TypeOK
<1>6. ASSUME NEW n \in Names, RegisterService(n) PROVE TypeInv'
  <2>1. services' \in [Names -> Entry]
    BY <1>0, <1>6 DEF RegisterService, TypeOK
  <2> QED
    BY <1>5, <1>6, <2>1, ZenonT(30) DEF RegisterService, TypeOK, SweepMap
<1>7. CASE Restart
  <2>1. /\ services' \in [Names -> Entry]
        /\ active' \in [Mapped -> Url \cup {NoUrl}]
        /\ streak' \in [Names -> 0..FailCap]
        /\ service_map' \in [Names -> Url \cup {NoUrl}]
        /\ failovers' \in Seq(Event)
    BY <1>0, <1>7, CoordinatorAssumption DEF Restart
  <2> QED
    BY <1>5, <1>7, <2>1, ZenonT(30) DEF Restart, TypeOK, SweepMap
<1>8. CASE World
  <2>1. /\ up' \subseteq Reachable
        /\ reg' \in [Names -> Hosts \cup {NoHost}]
        /\ redisUp' \in BOOLEAN /\ overload' \in BOOLEAN
        /\ left' \in 0..MaxEvents
    BY <1>5, <1>8, ZenonT(30)
       DEF World, FlipUrl, FlipKey, FlipRedis, FlipLoad, TypeOK
  <2> QED
    BY <1>8, <2>1, ZenonT(30) DEF World, TypeOK, SweepMap, state
<1>9. CASE TopologyExpires
  BY <1>9, ZenonT(30) DEF TopologyExpires, TypeOK, SweepMap, env, state
<1>10. CASE UNCHANGED vars
  BY <1>10, ZenonT(30) DEF TypeOK, SweepMap, vars, env, state
<1> QED
  BY <1>1, <1>2, <1>3, <1>4, <1>6, <1>7, <1>8, <1>9, <1>10 DEF Next, Monitor

\* Every reachable state of the coordinator is well typed, and in a sweep each name
\* is polled at an address of its own.
THEOREM TypeCorrect == Spec => []TypeOK
<1>1. Spec => []TypeInv
  BY TypeInit, TypeStep, PTL DEF Spec
<1>2. TypeInv => TypeOK
  BY DEF TypeInv
<1> QED
  BY <1>1, <1>2, PTL

--------------------------------------------------------------------------------
\* Routes and counts.

RouteOK == BackupAfterThreeMisses /\ EntryAgreesWithRoute /\ CountNeverOverstates

\* The three facts are inductive only together: a switch is decided by fail_count,
\* which bounds the true streak from below, and read back from the entry's status.
RouteInv == TypeInv /\ RouteOK

LEMMA RouteInit == Init => RouteOK
<1> SUFFICES ASSUME Init PROVE RouteOK
  OBVIOUS
<1>1. \A n \in Names : services[n] = NoEntry /\ streak[n] = 0
  BY DEF Init
<1>2. \A n \in Mapped : active[n] = NoUrl /\ n \in Names
  BY CoordinatorAssumption DEF Init
<1> QED
  BY <1>1, <1>2 DEF RouteOK, BackupAfterThreeMisses, EntryAgreesWithRoute,
     CountNeverOverstates, OnBackup, OnPrimary, NoEntry, Threshold

LEMMA RoutePoll ==
    ASSUME RouteInv, NEW p \in Names, Probe(p)
    PROVE  RouteOK'
<1> USE DEF RouteInv
<1>1. /\ services[p].fail_count \in 0..FailCap /\ streak[p] \in 0..FailCap
      /\ services[p].fail_count <= streak[p]
  BY DEF TypeInv, TypeOK, Entry, RouteOK, CountNeverOverstates
<1>2. /\ Count(services[p].fail_count) \in 0..FailCap
      /\ Count(streak[p]) \in 0..FailCap
      /\ Count(services[p].fail_count) <= Count(streak[p])
      /\ streak[p] <= Count(streak[p])
  BY <1>1, Counting
<1>3. service_map[p] \in Url /\ service_map[p].svc = p
  BY DEF Probe, TypeInv, SweepMap
<1>4. p \in Mapped => /\ ServiceUrl(FailoverMap[p]) \in Url
                      /\ ServiceUrl(FailoverMap[p]).svc = FailoverMap[p]
                      /\ FailoverMap[p] # p
  BY Addresses, CoordinatorAssumption DEF TypeInv
<1>5. /\ services \in [Names -> Entry] /\ streak \in [Names -> 0..FailCap]
      /\ active \in [Mapped -> Url \cup {NoUrl}]
  BY DEF TypeInv, TypeOK
<1>6. \A m \in Names : m # p => /\ services'[m] = services[m]
                                /\ streak'[m] = streak[m]
                                /\ m \in Mapped => active'[m] = active[m]
  BY <1>5, PollStep
<1>7. CASE /\ services'[p].status = "healthy" /\ services'[p].fail_count = 0
           /\ streak'[p] = 0
           /\ p \in Mapped => /\ active'[p] = service_map[p]
                              /\ services'[p].active_url = active'[p]
  <2>1. BackupAfterThreeMisses'
    BY <1>3, <1>4, <1>6, <1>7, CoordinatorAssumption
       DEF RouteOK, BackupAfterThreeMisses, OnBackup
  <2>2. EntryAgreesWithRoute'
    BY <1>3, <1>6, <1>7, CoordinatorAssumption
       DEF RouteOK, EntryAgreesWithRoute, OnBackup, OnPrimary, Threshold
  <2>3. CountNeverOverstates'
    BY <1>6, <1>7 DEF RouteOK, CountNeverOverstates
  <2> QED
    BY <2>1, <2>2, <2>3 DEF RouteOK
<1>8. CASE /\ services'[p].status = "unreachable"
           /\ services'[p].fail_count = Count(services[p].fail_count)
           /\ streak'[p] = Count(streak[p])
           /\ p \in Mapped =>
                /\ active'[p] # NoUrl => services'[p].active_url = active'[p]
                /\ IF Count(services[p].fail_count) >= Threshold
                   THEN active'[p] = ServiceUrl(FailoverMap[p])
                   ELSE active'[p] = active[p]
  <2>1. BackupAfterThreeMisses'
    BY <1>1, <1>2, <1>4, <1>6, <1>8, CoordinatorAssumption
       DEF RouteOK, BackupAfterThreeMisses, OnBackup, Threshold
  <2>2. EntryAgreesWithRoute'
    BY <1>4, <1>6, <1>8, CoordinatorAssumption
       DEF RouteOK, EntryAgreesWithRoute, OnBackup, OnPrimary
  <2>3. CountNeverOverstates'
    BY <1>2, <1>6, <1>8 DEF RouteOK, CountNeverOverstates
  <2> QED
    BY <2>1, <2>2, <2>3 DEF RouteOK
<1> QED
  BY <1>5, <1>7, <1>8, PollStep

LEMMA RouteStep == RouteInv /\ [Next]_vars => RouteOK'
<1> SUFFICES ASSUME RouteInv, [Next]_vars PROVE RouteOK'
  OBVIOUS
<1> USE DEF RouteOK, BackupAfterThreeMisses, EntryAgreesWithRoute,
            CountNeverOverstates, OnBackup, OnPrimary
<1>1. ASSUME NEW p \in Names, Probe(p) PROVE RouteOK'
  BY <1>1, RoutePoll
<1>2. ASSUME NEW p \in Names, RegisterService(p) PROVE RouteOK'
  <2>1. services \in [Names -> Entry] /\ streak \in [Names -> 0..FailCap]
    BY DEF RouteInv, TypeInv, TypeOK
  <2>2. /\ services'[p].status = "registered" /\ services'[p].fail_count = 0
        /\ \A m \in Names : m # p => services'[m] = services[m]
    BY <1>2, <2>1 DEF RegisterService, NoEntry
  <2>3. UNCHANGED <<active, streak>>
    BY <1>2 DEF RegisterService
  <2> QED
    BY <2>1, <2>2, <2>3, CoordinatorAssumption DEF RouteInv, Threshold
<1>3. CASE Restart
  <2>1. \A n \in Names : services'[n] = NoEntry /\ streak'[n] = 0
    BY <1>3 DEF Restart
  <2>2. \A n \in Mapped : active'[n] = NoUrl /\ n \in Names
    BY <1>3, CoordinatorAssumption DEF Restart
  <2> QED
    BY <2>1, <2>2 DEF NoEntry, Threshold
<1>4. CASE UNCHANGED state
  BY <1>4 DEF RouteInv, state
<1>5. (StartRound \/ SampleLoad \/ Publish \/ World \/ TopologyExpires
         \/ UNCHANGED vars) => UNCHANGED state
  BY DEF StartRound, SampleLoad, Publish, World, TopologyExpires, vars
<1> QED
  BY <1>1, <1>2, <1>3, <1>4, <1>5 DEF Next, Monitor

LEMMA RouteInvariant == Spec => []RouteInv
<1>1. Init => RouteInv
  BY TypeInit, RouteInit DEF RouteInv
<1>2. RouteInv /\ [Next]_vars => RouteInv'
  BY TypeStep, RouteStep DEF RouteInv
<1> QED
  BY <1>1, <1>2, PTL DEF Spec

\* Callers are on a backup only after three missed polls in a row; what dashboards
\* show of a service agrees with where its callers are sent; and the failure count
\* shown never exceeds the failed polls there really were.
THEOREM RoutesAreJustified ==
    Spec => [](BackupAfterThreeMisses /\ EntryAgreesWithRoute /\ CountNeverOverstates)
<1>1. RouteInv => BackupAfterThreeMisses /\ EntryAgreesWithRoute /\ CountNeverOverstates
  BY DEF RouteInv, RouteOK
<1> QED
  BY <1>1, RouteInvariant, PTL
\* The entry dashboards read names the endpoint callers are given, for any services,
\* hosts and backups.
COROLLARY EntriesAgreeWithRoutes == Spec => []EntryAgreesWithRoute
  BY RoutesAreJustified, PTL

\* fail_count never exceeds the polls in a row that really failed.
COROLLARY CountsAreHonest == Spec => []CountNeverOverstates
  BY RoutesAreJustified, PTL
--------------------------------------------------------------------------------
\* Refinement.

RouteOf(n) == IF active[n] = NoUrl THEN "default"
              ELSE IF active[n].svc = n THEN "primary" ELSE "backup"

LEMMA RoutingPoll ==
    ASSUME RouteInv, NEW p \in Names, Probe(p)
    PROVE  [Routing!Next]_(Routing!vars)
<1> DEFINE R == [n \in Mapped |-> RouteOf(n)]
           M == [n \in Mapped |-> streak[n]]
           C == [n \in Mapped |-> services[n].fail_count]
<1>1. /\ services \in [Names -> Entry] /\ streak \in [Names -> 0..FailCap]
      /\ active \in [Mapped -> Url \cup {NoUrl}]
  BY DEF RouteInv, TypeInv, TypeOK
<1>2. service_map[p] \in Url /\ service_map[p].svc = p
  BY DEF Probe, RouteInv, TypeInv, SweepMap
<1>3. NoUrl \notin Url /\ \A n \in Mapped : n \in Names
  BY CoordinatorAssumption
<1>4. \A m \in Mapped : m # p => /\ streak'[m] = streak[m] /\ active'[m] = active[m]
                                 /\ services'[m] = services[m]
  BY <1>1, <1>3, PollStep DEF RouteInv
<1>5. CASE p \notin Mapped
  <2>1. R' = R /\ M' = M /\ C' = C
    BY <1>4, <1>5 DEF RouteOf
  <2> QED
    BY <2>1 DEF Routing!vars, RouteOf
<1>6. CASE /\ p \in Mapped /\ streak'[p] = 0 /\ services'[p].fail_count = 0
           /\ active'[p] = service_map[p]
  <2>1. M' = [M EXCEPT ![p] = 0] /\ C' = [C EXCEPT ![p] = 0]
    BY <1>4, <1>6
  <2>2. R' = [R EXCEPT ![p] = "primary"]
    BY <1>2, <1>3, <1>4, <1>6 DEF RouteOf
  <2>3. Routing!Answered(p)
    BY <2>1, <2>2 DEF Routing!Answered, RouteOf
  <2> QED
    BY <1>6, <2>3 DEF Routing!Next
<1>7. CASE /\ p \in Mapped /\ streak'[p] = Count(streak[p])
           /\ services'[p].fail_count = Count(services[p].fail_count)
           /\ IF Count(services[p].fail_count) >= Threshold
              THEN active'[p] = ServiceUrl(FailoverMap[p])
              ELSE active'[p] = active[p]
  <2>1. M' = [M EXCEPT ![p] = Routing!More(@)] /\ C' = [C EXCEPT ![p] = Routing!More(@)]
    BY <1>4, <1>7 DEF Count, Routing!More
  <2>2. C'[p] = Count(services[p].fail_count)
    BY <1>7
  <2>3. CASE Count(services[p].fail_count) >= Threshold
    <3>1. R' = [R EXCEPT ![p] = "backup"]
      <4>1. /\ active'[p] \in Url /\ active'[p].svc = FailoverMap[p]
            /\ FailoverMap[p] # p
        BY <1>7, <2>3, Addresses, CoordinatorAssumption DEF RouteInv, TypeInv
      <4> QED
        BY <1>3, <1>4, <4>1 DEF RouteOf
    <3>2. C'[p] >= 3
      BY <2>2, <2>3 DEF Threshold
    <3>3. Routing!Missed(p)
      BY <2>1, <3>1, <3>2 DEF Routing!Missed, RouteOf
    <3> QED
      BY <1>7, <3>3 DEF Routing!Next
  <2>4. CASE ~(Count(services[p].fail_count) >= Threshold)
    <3>1. R' = R
      BY <1>4, <1>7, <2>4 DEF RouteOf
    <3>2. ~(C'[p] >= 3)
      BY <2>2, <2>4 DEF Threshold
    <3>3. Routing!Missed(p)
      BY <2>1, <3>1, <3>2 DEF Routing!Missed, RouteOf
    <3> QED
      BY <1>7, <3>3 DEF Routing!Next
  <2> QED
    BY <2>3, <2>4
<1>8. p \in Mapped =>
        \/ /\ streak'[p] = 0 /\ services'[p].fail_count = 0
           /\ active'[p] = service_map[p]
        \/ /\ streak'[p] = Count(streak[p])
           /\ services'[p].fail_count = Count(services[p].fail_count)
           /\ IF Count(services[p].fail_count) >= Threshold
              THEN active'[p] = ServiceUrl(FailoverMap[p])
              ELSE active'[p] = active[p]
  BY <1>1, PollStep DEF RouteInv
<1> QED
  BY <1>5, <1>6, <1>7, <1>8

LEMMA RoutingStep == RouteInv /\ [Next]_vars => [Routing!Next]_(Routing!vars)
<1> SUFFICES ASSUME RouteInv, [Next]_vars PROVE [Routing!Next]_(Routing!vars)
  OBVIOUS
<1> DEFINE C == [n \in Mapped |-> services[n].fail_count]
<1>1. ASSUME NEW p \in Names, Probe(p) PROVE [Routing!Next]_(Routing!vars)
  BY <1>1, RoutingPoll
<1>2. CASE Restart
  <2>1. \A n \in Mapped : /\ active'[n] = NoUrl /\ streak'[n] = 0
                          /\ services'[n].fail_count = 0
    BY <1>2, CoordinatorAssumption DEF Restart, NoEntry
  <2>2. Routing!Forget
    BY <2>1 DEF Routing!Forget, Routing!None
  <2> QED
    BY <2>2 DEF Routing!Next
<1>3. ASSUME NEW p \in Names, RegisterService(p) PROVE [Routing!Next]_(Routing!vars)
  <2>1. services \in [Names -> Entry] /\ \A n \in Mapped : n \in Names
    BY CoordinatorAssumption DEF RouteInv, TypeInv, TypeOK
  <2>2. /\ services'[p].fail_count = 0
        /\ \A m \in Names : m # p => services'[m] = services[m]
        /\ UNCHANGED <<active, streak>>
    BY <1>3, <2>1 DEF RegisterService, NoEntry
  <2>3. CASE p \in Mapped
    <3>1. C' = [C EXCEPT ![p] = 0]
      BY <2>1, <2>2
    <3>2. Routing!Registered(p)
      BY <2>2, <3>1 DEF Routing!Registered
    <3> QED
      BY <2>3, <3>2 DEF Routing!Next
  <2>4. CASE p \notin Mapped
    <3>1. C' = C
      BY <2>1, <2>2, <2>4
    <3> QED
      BY <2>2, <3>1 DEF Routing!vars
  <2> QED
    BY <2>3, <2>4
<1>4. CASE UNCHANGED <<services, active, streak>>
  BY <1>4 DEF Routing!vars
<1>5. (StartRound \/ SampleLoad \/ Publish \/ World \/ TopologyExpires
         \/ UNCHANGED vars) => UNCHANGED <<services, active, streak>>
  BY DEF StartRound, SampleLoad, Publish, World, TopologyExpires, vars, state
<1> QED
  BY <1>1, <1>2, <1>3, <1>4, <1>5 DEF Next, Monitor

\* The coordinator implements the failure detector: its callers leave a primary with
\* the third miss in a row since it registered, and return to it at its first answer.
THEOREM CoordinatorImplementsRouting == Spec => ImplementsRouting
<1>1. Init => Routing!Init
  BY CoordinatorAssumption DEF Init, Routing!Init, Routing!None, NoEntry
<1>2. []RouteInv /\ [][Next]_vars => [][Routing!Next]_(Routing!vars)
  BY RoutingStep, PTL
<1> QED
  BY <1>1, <1>2, RouteInvariant, PTL DEF Spec, ImplementsRouting, Routing!Spec

--------------------------------------------------------------------------------
\* The timeline.

TimelineOK == TimelineExplainsRoute /\ TimelineNeverRepeats

\* A new event, recorded because the endpoint changes, keeps the timeline right: it
\* differs from the last event of its service, whose URL was the endpoint before.
LEMMA TimelineAppend ==
    ASSUME TimelineOK, failovers \in Seq(Event), active \in [Mapped -> Url \cup {NoUrl}],
           NEW p \in Mapped, NEW url \in Url, active[p] # url,
           NEW what, what = IF url.svc = FailoverMap[p] THEN "failover" ELSE "restored",
           active' = [active EXCEPT ![p] = url],
           failovers' = Append(failovers, [event |-> what, service |-> p, url |-> url])
    PROVE  TimelineOK'
<1> DEFINE last == Len(failovers) + 1
           e    == [event |-> what, service |-> p, url |-> url]
<1>1. /\ DOMAIN failovers' = DOMAIN failovers \cup {last}
      /\ failovers'[last] = e
      /\ \A i \in DOMAIN failovers : failovers'[i] = failovers[i] /\ i < last
      /\ DOMAIN failovers \subseteq Nat /\ last \in Nat
  OBVIOUS
<1>2. \A n \in Mapped : EventsOf(n)' = EventsOf(n) \cup (IF n = p THEN {last} ELSE {})
  BY <1>1 DEF EventsOf
<1>3. \A n \in Mapped : EventsOf(n) \subseteq DOMAIN failovers
  BY DEF EventsOf
<1>4. NoUrl \notin Url
  BY CoordinatorAssumption
<1>5. ASSUME NEW n \in Mapped, n # p
      PROVE  /\ active'[n] = active[n] /\ EventsOf(n)' = EventsOf(n)
             /\ OnBackup(n)' = OnBackup(n)
             /\ \A i \in EventsOf(n) : failovers'[i] = failovers[i]
  BY <1>1, <1>2, <1>3, <1>5 DEF OnBackup
<1>6. active'[p] = url /\ last \in EventsOf(p)' /\ OnBackup(p)' = (url.svc = FailoverMap[p])
  BY <1>2, <1>4 DEF OnBackup
<1>7. \A i \in EventsOf(p)' : IsLast(i, p)' => i = last
  BY <1>1, <1>2, <1>3, <1>6 DEF IsLast
<1>8. TimelineExplainsRoute'
  <2>1. failovers'[last].url = url /\ failovers'[last].event = what
    BY <1>1
  <2>2. ASSUME NEW n \in Mapped
        PROVE  active'[n] = NoUrl <=> EventsOf(n)' = {}
    BY <1>4, <1>5, <1>6 DEF TimelineOK, TimelineExplainsRoute
  <2>3. ASSUME NEW n \in Mapped, NEW i \in EventsOf(n)', IsLast(i, n)'
        PROVE  /\ failovers'[i].url = active'[n]
               /\ failovers'[i].event = IF OnBackup(n)' THEN "failover" ELSE "restored"
    <3>1. CASE n = p
      <4>1. i = last
        BY <1>7, <2>3, <3>1
      <4> QED
        BY <1>6, <2>1, <3>1, <4>1
    <3>2. CASE n # p
      <4>1. i \in EventsOf(n) /\ IsLast(i, n)
        BY <1>5, <2>3, <3>2 DEF IsLast
      <4>2. /\ failovers[i].url = active[n]
            /\ failovers[i].event = IF OnBackup(n) THEN "failover" ELSE "restored"
        BY <4>1 DEF TimelineOK, TimelineExplainsRoute
      <4> QED
        BY <1>5, <3>2, <4>1, <4>2
    <3> QED
      BY <3>1, <3>2
  <2> QED
    BY <2>2, <2>3 DEF TimelineExplainsRoute
<1>9. TimelineNeverRepeats'
  <2>1. ASSUME NEW n \in Mapped, NEW i \in EventsOf(n)', NEW j \in EventsOf(n)',
               i < j, \A k \in EventsOf(n)' : k <= i \/ j <= k
        PROVE  failovers'[i] # failovers'[j]
    <3>1. i \in EventsOf(n) /\ failovers'[i] = failovers[i]
      BY <1>1, <1>2, <1>3, <2>1
    <3>2. CASE j \in EventsOf(n)
      <4>1. \A k \in EventsOf(n) : k <= i \/ j <= k
        BY <1>2, <2>1
      <4>2. failovers[i] # failovers[j]
        BY <2>1, <3>1, <3>2, <4>1 DEF TimelineOK, TimelineNeverRepeats
      <4> QED
        BY <1>1, <1>3, <3>1, <3>2, <4>2
    <3>3. CASE j \notin EventsOf(n)
      <4>1. n = p /\ j = last
        BY <1>2, <3>3
      <4>2. IsLast(i, p)
        BY <1>1, <1>2, <1>3, <2>1, <3>1, <4>1 DEF IsLast
      <4>3. failovers[i].url = active[p]
        BY <3>1, <4>1, <4>2 DEF TimelineOK, TimelineExplainsRoute
      <4>4. failovers'[j].url = url
        BY <1>1, <4>1
      <4> QED
        BY <3>1, <4>3, <4>4
    <3> QED
      BY <3>2, <3>3
  <2> QED
    BY <2>1 DEF TimelineNeverRepeats
<1> QED
  BY <1>8, <1>9 DEF TimelineOK

LEMMA TimelineSet ==
    ASSUME TimelineOK, TypeOK, NEW p \in Mapped, NEW url \in Url, NEW what,
           what = IF url.svc = FailoverMap[p] THEN "failover" ELSE "restored",
           SetEndpoint(p, url, what)
    PROVE  TimelineOK'
<1>1. failovers \in Seq(Event) /\ active \in [Mapped -> Url \cup {NoUrl}]
  BY DEF TypeOK
<1>2. CASE active[p] # url
  BY <1>1, <1>2, TimelineAppend DEF SetEndpoint
<1>3. CASE active[p] = url
  BY <1>3 DEF SetEndpoint, TimelineOK, TimelineExplainsRoute, TimelineNeverRepeats,
              EventsOf, IsLast, OnBackup
<1> QED
  BY <1>2, <1>3

LEMMA TimelineStep == TypeInv /\ TimelineOK /\ [Next]_vars => TimelineOK'
<1> SUFFICES ASSUME TypeInv, TimelineOK, [Next]_vars PROVE TimelineOK'
  OBVIOUS
<1> USE DEF TypeInv
<1>1. CASE UNCHANGED <<active, failovers>>
  BY <1>1 DEF TimelineOK, TimelineExplainsRoute, TimelineNeverRepeats,
              EventsOf, IsLast, OnBackup
<1>2. ASSUME NEW p \in Names, Probe(p) PROVE TimelineOK'
  <2>1. service_map[p] \in Url /\ service_map[p].svc = p
    BY <1>2 DEF Probe, SweepMap
  <2>2. p \in Mapped => FailoverMap[p] # p /\ FailoverMap[p] \in Names
    BY CoordinatorAssumption
  <2>3. CASE ProbeHealthy(p) /\ p \in Mapped
    <3>1. SetEndpoint(p, service_map[p], "restored")
      BY <2>3 DEF ProbeHealthy
    <3> QED
      BY <2>1, <2>2, <2>3, <3>1, TimelineSet
  <2>4. CASE ProbeUnreachable(p) /\ p \in Mapped
    <3>1. \/ SetEndpoint(p, ServiceUrl(FailoverMap[p]), "failover")
          \/ UNCHANGED <<active, failovers>>
      BY <2>4 DEF ProbeUnreachable
    <3>2. /\ ServiceUrl(FailoverMap[p]) \in Url
          /\ ServiceUrl(FailoverMap[p]).svc = FailoverMap[p]
      BY <2>2, <2>4, Addresses
    <3> QED
      BY <1>1, <2>4, <3>1, <3>2, TimelineSet
  <2>5. CASE p \notin Mapped
    BY <1>1, <1>2, <2>5 DEF Probe, ProbeHealthy, ProbeUnreachable
  <2> QED
    BY <1>2, <2>3, <2>4, <2>5 DEF Probe
<1>3. CASE Restart
  BY <1>3, CoordinatorAssumption DEF Restart, TimelineOK, TimelineExplainsRoute,
     TimelineNeverRepeats, EventsOf, IsLast, OnBackup
<1>4. (StartRound \/ SampleLoad \/ Publish \/ World \/ TopologyExpires
         \/ UNCHANGED vars \/ \E n \in Names : RegisterService(n))
             => UNCHANGED <<active, failovers>>
  BY DEF StartRound, SampleLoad, Publish, World, TopologyExpires, RegisterService,
         vars, state
<1> QED
  BY <1>1, <1>2, <1>3, <1>4 DEF Next, Monitor

\* The timeline always explains the routes in force, and reports a service that
\* stays where it is once, however many rounds find it so.
THEOREM TimelineIsFaithful == Spec => [](TimelineExplainsRoute /\ TimelineNeverRepeats)
<1>1. Init => TimelineOK
  BY CoordinatorAssumption DEF Init, TimelineOK, TimelineExplainsRoute,
     TimelineNeverRepeats, EventsOf, IsLast
<1>2. Spec => []TypeInv
  BY TypeInit, TypeStep, PTL DEF Spec
<1>3. Spec => []TimelineOK
  BY <1>1, <1>2, TimelineStep, PTL DEF Spec
<1>4. TimelineOK => TimelineExplainsRoute /\ TimelineNeverRepeats
  BY DEF TimelineOK
<1> QED
  BY <1>3, <1>4, PTL

\* No outage is reported twice: consecutive events of a service differ.
COROLLARY OutagesAreReportedOnce == Spec => []TimelineNeverRepeats
  BY TimelineIsFaithful, PTL
================================================================================
