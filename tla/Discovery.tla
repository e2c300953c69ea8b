------------------------------- MODULE Discovery -------------------------------
(***************************************************************************)
(* Auto discovery: one machine per role, each running discovery_server.    *)
(* A broadcaster thread sends the machine's role and address to the        *)
(* others, a listener records theirs, peers can also be registered over    *)
(* HTTP, and the main thread waits until every role is known or the time   *)
(* is up; then it writes the addresses to .env.resolved.                   *)
(*                                                                         *)
(* The unit of time is BROADCAST_INTERVAL (3 s).  Within it every thread   *)
(* gets its turn (the main loop sleeps 1 s, the listener waits 2 s) and a  *)
(* packet arrives or is lost; the order is left open.                      *)
(***************************************************************************)
EXTENDS Naturals

CONSTANTS
    DISCOVERY_TIMEOUT,  \* in broadcast intervals
    Scenarios           \* bounds: <<S, n>> for the machines in S, the others running no
                        \* discovery, and n kills, lost packets and manual registrations

VALID_ROLES == {"system1", "system2", "system3"}

ASSUME DiscoveryAssumption ==
    /\ DISCOVERY_TIMEOUT \in Nat \ {0}
    /\ Scenarios \subseteq (SUBSET VALID_ROLES) \X Nat

VARIABLES
    ip,         \* the LAN address of each machine
    phase,      \* its program: absent, off, search, ready
    peers,      \* _peers: the address it knows of each role, or Unknown
    done,       \* _discovery_done
    listening,  \* its socket is open
    waited,     \* intervals since its search began
    due,        \* machines whose broadcaster is about to send
    net,        \* packets under way
    env,        \* its .env.resolved, by role, or NoEnv
    incidents,  \* those that may still happen
    reported,   \* history: <<m, r>> when m was told of r before it wrote its file
    outdated,   \* history: <<m, r>> when r changed its address after the last of that was said
    missed      \* history: <<m, r>> when a packet from r to m was lost

table   == <<peers, done>>
network == <<listening, due, net>>
history == <<reported, outdated, missed>>
vars    == <<ip, phase, table, network, waited, env, incidents, history>>

Loopback == <<"127.0.0.1", 0>>
Unknown  == <<"none", 0>>
NoEnv    == <<>>
Nobody   == [r \in VALID_ROLES |-> Unknown]
Address  == VALID_ROLES \X (Nat \ {0})

Init ==
    /\ ip = [m \in VALID_ROLES |-> <<m, 1>>]
    /\ \E s \in Scenarios :
        /\ phase = [m \in VALID_ROLES |-> IF m \in s[1] THEN "off" ELSE "absent"]
        /\ incidents = s[2]
    /\ peers = [m \in VALID_ROLES |-> Nobody]
    /\ done = [m \in VALID_ROLES |-> FALSE]
    /\ listening = [m \in VALID_ROLES |-> FALSE]
    /\ waited = [m \in VALID_ROLES |-> 0]
    /\ due = {} /\ net = {}
    /\ env = [m \in VALID_ROLES |-> NoEnv]
    /\ reported = {} /\ outdated = {} /\ missed = {}

Known(m, r)     == peers[m][r] # Unknown
Up(m)           == phase[m] \in {"search", "ready"}
Searching(m)    == phase[m] = "search" /\ ~done[m]
Goto(m, where)  == phase' = [phase EXCEPT ![m] = where]
Set(m, r, a)    == peers' = [peers EXCEPT ![m][r] = a]
Happens         == incidents > 0 /\ incidents' = incidents - 1
Unheard(n, m)   == {p \in n : p.to # m}

\* What is said of an address by then given up is outdated when it is heard.
Told(m, r, a) ==
    IF phase[m] = "ready"
    THEN UNCHANGED <<reported, outdated>>
    ELSE /\ reported' = reported \cup {<<m, r>>}
         /\ outdated' = IF a = ip[r] THEN outdated \ {<<m, r>>} ELSE outdated \cup {<<m, r>>}
--------------------------------------------------------------------------------
\* run_discovery and main.

\* Variant: the machine does not enter itself in its own table.
StartUnnamed(m) ==
    /\ phase[m] = "off"
    /\ Goto(m, "search")
    /\ due' = due \cup {m}
    /\ UNCHANGED <<ip, table, listening, net, waited, env, incidents, history>>

\* The machine enters itself; the threads start.
Start(m) ==
    /\ phase[m] = "off"
    /\ Goto(m, "search")
    /\ Set(m, m, ip[m])
    /\ due' = due \cup {m}
    /\ UNCHANGED <<ip, done, listening, net, waited, env, incidents, history>>

\* Variant: the search is given up only by a machine that knows nobody.
GiveUpAlone(m) ==
    /\ Searching(m) /\ waited[m] = DISCOVERY_TIMEOUT
    /\ \A r \in VALID_ROLES : Known(m, r) => r = m
    /\ done' = [done EXCEPT ![m] = TRUE]
    /\ UNCHANGED <<ip, phase, peers, network, waited, env, incidents, history>>

GiveUp(m) ==
    /\ Searching(m) /\ waited[m] = DISCOVERY_TIMEOUT
    /\ done' = [done EXCEPT ![m] = TRUE]
    /\ UNCHANGED <<ip, phase, peers, network, waited, env, incidents, history>>

\* Variant: a file that is there from an earlier run is kept.
ConfigureOnce(m) ==
    /\ phase[m] = "search" /\ done[m]
    /\ Goto(m, "ready")
    /\ env' = [env EXCEPT ![m] =
                  IF @ # NoEnv THEN @ ELSE
                  [r \in VALID_ROLES |-> IF Known(m, r) THEN peers[m][r] ELSE Loopback]]
    /\ UNCHANGED <<ip, table, network, waited, incidents, history>>

\* The table is copied when the loop has ended, and the copy written by write_resolved_env
\* (one step: nothing but the copy is read, so a peer that is registered in between is one
\* that comes after it); the two functions that patch sources find nothing to patch.
Configure(m) ==
    /\ phase[m] = "search" /\ done[m]
    /\ Goto(m, "ready")
    /\ env' = [env EXCEPT ![m] =
                  [r \in VALID_ROLES |-> IF Known(m, r) THEN peers[m][r] ELSE Loopback]]
    /\ UNCHANGED <<ip, table, network, waited, incidents, history>>
--------------------------------------------------------------------------------
\* broadcaster_loop and listener_loop.

\* Those who are listening are sent the packet; what they hear of themselves is old news.
Broadcast(m) ==
    /\ m \in due /\ Searching(m)
    /\ due' = due \ {m}
    /\ net' = net \cup [to : {o \in VALID_ROLES \ {m} : listening[o]},
                        role : {m}, ip : {ip[m]}]
    /\ UNCHANGED <<ip, phase, table, listening, waited, env, incidents, history>>

Bind(m) ==
    /\ Searching(m) /\ ~listening[m]
    /\ listening' = [listening EXCEPT ![m] = TRUE]
    /\ UNCHANGED <<ip, phase, table, due, net, waited, env, incidents, history>>

CheckAllDiscovered(m) ==
    done' = [done EXCEPT ![m] = @ \/ \A r \in VALID_ROLES : peers'[m][r] # Unknown]

\* Variant: the first address heard of a role is kept.
RecordFirst(m, r, a) ==
    IF Known(m, r) THEN UNCHANGED table
                   ELSE Set(m, r, a) /\ CheckAllDiscovered(m)

Record(m, r, a) ==
    IF peers[m][r] = a THEN UNCHANGED table ELSE Set(m, r, a) /\ CheckAllDiscovered(m)

\* The loop ends after a packet when the search is over, at once or by then.
Receive(m) ==
    /\ listening[m]
    /\ \E p \in net :
        /\ p.to = m
        /\ Record(m, p.role, p.ip)
        /\ Told(m, p.role, p.ip)
        /\ listening' = [listening EXCEPT ![m] = ~done'[m]]
        /\ net' = IF done'[m] THEN Unheard(net, m) ELSE net \ {p}
    /\ UNCHANGED <<ip, phase, due, waited, env, incidents, missed>>

CloseSocket(m) ==
    /\ listening[m] /\ done[m]
    /\ listening' = [listening EXCEPT ![m] = FALSE]
    /\ net' = Unheard(net, m)
    /\ UNCHANGED <<ip, phase, table, due, waited, env, incidents, history>>
--------------------------------------------------------------------------------
\* POST /register: the table is not checked.  The address is whatever the request says:
\* who sends one is taken to know the peer's present address.
RegisterPeer(m, r) ==
    /\ Up(m) /\ r # m
    /\ Happens
    /\ Set(m, r, ip[r])
    /\ Told(m, r, ip[r])
    /\ UNCHANGED <<ip, phase, done, network, waited, env, missed>>

Lose ==
    /\ Happens
    /\ \E p \in net : net' = net \ {p} /\ missed' = missed \cup {<<p.to, p.role>>}
    /\ UNCHANGED <<ip, phase, table, listening, due, waited, env, reported, outdated>>

\* The program is stopped or its machine restarts, maybe with another address.
Kill(m) ==
    /\ Up(m)
    /\ Happens
    /\ \E moves \in BOOLEAN :
        /\ ip' = IF moves THEN [ip EXCEPT ![m] = <<m, @[2] + 1>>] ELSE ip
        /\ outdated' = {x \in outdated : x[1] # m}
                           \cup {<<n, m>> : n \in IF moves THEN VALID_ROLES \ {m} ELSE {}}
    /\ Goto(m, "off")
    /\ peers' = [peers EXCEPT ![m] = Nobody]
    /\ done' = [done EXCEPT ![m] = FALSE]
    /\ listening' = [listening EXCEPT ![m] = FALSE]
    /\ waited' = [waited EXCEPT ![m] = 0]
    /\ due' = due \ {m} /\ net' = Unheard(net, m)
    /\ reported' = {x \in reported : x[1] # m}
    /\ missed' = {x \in missed : x[1] # m}
    /\ UNCHANGED env

\* An interval is over when everything that belongs to it has happened.
Settled(m) ==
    /\ phase[m] = "search" => listening[m] /\ ~done[m] /\ waited[m] < DISCOVERY_TIMEOUT
    /\ phase[m] = "ready" => ~listening[m]
    /\ ~(m \in due /\ Searching(m))

Tick ==
    /\ net = {}
    /\ \A m \in VALID_ROLES : Settled(m)
    /\ due' = {m \in VALID_ROLES : Searching(m)}
    /\ due' # {}
    /\ waited' = [m \in VALID_ROLES |-> waited[m] + IF m \in due' THEN 1 ELSE 0]
    /\ UNCHANGED <<ip, phase, table, listening, net, env, incidents, history>>

Run(m) ==
    \/ GiveUp(m) \/ Configure(m)
    \/ Broadcast(m) \/ Bind(m) \/ Receive(m) \/ CloseSocket(m)

Next == \/ \E m \in VALID_ROLES :
              Start(m) \/ Run(m) \/ Kill(m) \/ \E r \in VALID_ROLES : RegisterPeer(m, r)
        \/ Lose
        \/ Tick

Spec == Init /\ [][Next]_vars

\* The threads of a machine that runs keep running, and time passes.
FairSpec == Spec /\ WF_vars(Tick) /\ \A m \in VALID_ROLES : WF_vars(Run(m))
--------------------------------------------------------------------------------
\* Where write_resolved_env puts each service, and where constants.py says it runs.

UrlRole(s) ==
    CASE s \in {"api-gateway", "order-service"} -> "system1"
      [] s \in {"payment-service", "inventory-service", "backup-payment"} -> "system2"
      [] s \in {"notification-service", "logging-service", "backup-logging", "dashboard",
                "coordinator", "time-sync", "redis", "mongodb"} -> "system3"

ROLE_SERVICES ==
    [system1 |-> {"api-gateway", "order-service"},
     system2 |-> {"payment-service", "inventory-service", "backup-payment"},
     system3 |-> {"notification-service", "logging-service", "backup-logging", "dashboard",
                  "coordinator", "time-sync"}]

\* Every variable keeps its type; who searches is in its own table.
TypeOK ==
    /\ ip \in [VALID_ROLES -> Address]
    /\ phase \in [VALID_ROLES -> {"absent", "off", "search", "ready"}]
    /\ peers \in [VALID_ROLES -> [VALID_ROLES -> Address \cup {Unknown}]]
    /\ \A m \in VALID_ROLES : Up(m) => Known(m, m)
    /\ env \in [VALID_ROLES -> [VALID_ROLES -> Address \cup {Loopback}] \cup {NoEnv}]
    /\ done \in [VALID_ROLES -> BOOLEAN] /\ listening \in [VALID_ROLES -> BOOLEAN]
    /\ waited \in [VALID_ROLES -> 0..DISCOVERY_TIMEOUT]
    /\ due \subseteq VALID_ROLES
    /\ net \subseteq [to : VALID_ROLES, role : VALID_ROLES, ip : Address]
    /\ incidents \in Nat
    /\ reported \cup outdated \cup missed \subseteq VALID_ROLES \X VALID_ROLES

\* Two machines that have searched together for a full interval know each other's present
\* address, whatever the order in which they started, were restarted with a new address
\* or had old packets delivered, unless one of the packets was lost.
RunningTogetherIsEnough ==
    \A m, r \in VALID_ROLES :
        /\ m # r /\ <<m, r>> \notin missed
        /\ Searching(m) /\ waited[m] >= 2
        /\ Searching(r) /\ waited[r] >= 2
        => peers[m][r] = ip[r]

\* The file of a machine sends the calls of every service to the present address of the
\* system that runs it; to the machine itself only for a system nobody had told it of by
\* then, and to an old address only if the system moved after the last that was said of it.
CallsReachTheirSystem ==
    \A m, r \in VALID_ROLES : phase[m] = "ready" =>
        \A s \in ROLE_SERVICES[r] :
            LET host == env[m][UrlRole(s)]
            IN  \/ host = ip[r]
                \/ host = Loopback /\ <<m, r>> \notin reported
                \/ <<m, r>> \in outdated

\* A machine that starts ends up configured, whoever is there to be found.
EveryRunEnds == \A m \in VALID_ROLES : phase[m] = "search" ~> phase[m] \in {"ready", "off"}

Complete(m) == env[m] # NoEnv /\ \A r \in VALID_ROLES : env[m][r] # Loopback

\* "Once all 3 systems are discovered, writes a resolved .env file": machines that search
\* at the same time, with time left for another broadcast of each, all find each other.
TogetherAllAreFound ==
    (\A m \in VALID_ROLES :
        Searching(m) /\ listening[m] /\ waited[m] + 2 <= DISCOVERY_TIMEOUT)
    ~> (\A m \in VALID_ROLES : Complete(m))
================================================================================
