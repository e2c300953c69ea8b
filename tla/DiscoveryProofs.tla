---------------------------- MODULE DiscoveryProofs ----------------------------
(***************************************************************************)
(* Theorems about Discovery, for any timeout and any number of kills, lost *)
(* packets and registrations.                                              *)
(***************************************************************************)
EXTENDS Discovery, TLAPS

\* An address that may stand for machine r with machine m, and an entry of its file.
Fits(m, r, a)  == a = ip[r] \/ <<m, r>> \in outdated
Entry(m, r, a) == Fits(m, r, a) \/ (a = Loopback /\ <<m, r>> \notin reported)

\* What a machine was told of is in its table, as it was said last, and goes from there
\* into its file.
Files ==
    \A m, r \in VALID_ROLES :
        /\ phase[m] # "ready" /\ <<m, r>> \in reported => Known(m, r)
        /\ phase[m] # "ready" /\ Known(m, r) => Fits(m, r, peers[m][r])
        /\ phase[m] = "ready" => Entry(m, r, env[m][r])

Packet(m, r)  == [to |-> m, role |-> r, ip |-> ip[r]]
Both(m, r, k) == /\ m # r /\ <<m, r>> \notin missed
                 /\ Searching(m) /\ waited[m] >= k
                 /\ Searching(r) /\ waited[r] >= k

\* From its first full interval on, a machine listens and no packet of an earlier run of
\* its is under way.
Settling ==
    /\ \A m \in VALID_ROLES : ~Up(m) => waited[m] = 0
    /\ \A m \in VALID_ROLES : Searching(m) /\ waited[m] >= 1 => listening[m]
    /\ \A r \in VALID_ROLES : waited[r] >= 1 => \A p \in net : p.role = r => p.ip = ip[r]

\* Then its address is known to another such machine, or on the way to it, or about to be
\* sent, and known after the second interval.
Meeting(m, r) ==
    /\ Both(m, r, 1) => r \in due \/ Packet(m, r) \in net \/ peers[m][r] = ip[r]
    /\ Both(m, r, 2) => peers[m][r] = ip[r]

DiscoveryInv ==
    TypeOK /\ Files /\ Settling /\ \A m, r \in VALID_ROLES : Meeting(m, r)
--------------------------------------------------------------------------------
LEMMA Bounds == DISCOVERY_TIMEOUT \in Nat /\ DISCOVERY_TIMEOUT > 0
  BY DiscoveryAssumption

LEMMA Addresses ==
    /\ Unknown \notin Address /\ Loopback \notin Address /\ Loopback # Unknown
    /\ \A a \in Address : a[1] \in VALID_ROLES
  BY DEF Address, Unknown, Loopback, VALID_ROLES

\* One entry of a table is written.
LEMMA Entered ==
    ASSUME TypeOK, NEW m \in VALID_ROLES, NEW r \in VALID_ROLES, NEW a \in Address,
           Set(m, r, a)
    PROVE  /\ peers' \in [VALID_ROLES -> [VALID_ROLES -> Address \cup {Unknown}]]
           /\ peers'[m][r] = a
           /\ \A n, o \in VALID_ROLES : n # m \/ o # r => peers'[n][o] = peers[n][o]
  BY DEF TypeOK, Set

LEMMA DiscoveryInit == Init => DiscoveryInv
<1> SUFFICES ASSUME Init PROVE DiscoveryInv
  OBVIOUS
<1>1. PICK s \in Scenarios :
        /\ phase = [m \in VALID_ROLES |-> IF m \in s[1] THEN "off" ELSE "absent"]
        /\ incidents = s[2]
  BY DEF Init
<1>2. incidents \in Nat /\ \A m \in VALID_ROLES : phase[m] \in {"off", "absent"}
  BY <1>1, DiscoveryAssumption
<1>3. /\ ip \in [VALID_ROLES -> Address] /\ \A m \in VALID_ROLES : ip[m][1] = m
  BY DEF Init, Address
<1>4. /\ peers \in [VALID_ROLES -> [VALID_ROLES -> Address \cup {Unknown}]]
      /\ \A m, r \in VALID_ROLES : ~Known(m, r)
  BY DEF Init, Nobody, Known
<1>5. TypeOK
  BY <1>1, <1>2, <1>3, <1>4, Bounds DEF Init, TypeOK, Up
<1>6. Files
  BY <1>2, <1>4 DEF Init, Files
<1>7. Settling /\ \A m, r \in VALID_ROLES : Meeting(m, r)
  BY <1>2 DEF Init, Settling, Meeting, Both, Searching
<1> QED
  BY <1>5, <1>6, <1>7 DEF DiscoveryInv
--------------------------------------------------------------------------------
\* A step under which no two machines begin to search together and nothing that one knows
\* of the other is lost keeps what is said of them.
LEMMA MeetingKept ==
    ASSUME NEW m \in VALID_ROLES, NEW r \in VALID_ROLES, Meeting(m, r),
           Searching(m)' => Searching(m), Searching(r)' => Searching(r),
           <<m, r>> \in missed => <<m, r>> \in missed' \/ ~Searching(m)',
           waited[m] \in Nat, waited[r] \in Nat,
           waited'[m] = waited[m], waited'[r] = waited[r], ip'[r] = ip[r],
           Searching(m)' /\ r \in due => r \in due' \/ Packet(m, r) \in net',
           Searching(m)' /\ Packet(m, r) \in net /\ <<m, r>> \notin missed' =>
               Packet(m, r) \in net' \/ peers'[m][r] = ip[r],
           Searching(m)' /\ Searching(r)' /\ waited[r] >= 1 /\ peers[m][r] = ip[r]
               => peers'[m][r] = ip[r]
    PROVE  Meeting(m, r)'
<1>1. Both(m, r, 2) => Both(m, r, 1)
  BY DEF Both
<1>2. /\ Both(m, r, 1)' => Both(m, r, 1) /\ <<m, r>> \notin missed' /\ Searching(m)'
                           /\ Searching(r)' /\ waited[r] >= 1
      /\ Both(m, r, 2)' => Both(m, r, 2) /\ Both(m, r, 1)'
  BY DEF Both
<1>3. Packet(m, r)' = Packet(m, r)
  BY DEF Packet
<1> QED
  BY <1>2, <1>3 DEF Meeting

LEMMA StartStep ==
    ASSUME DiscoveryInv, NEW m \in VALID_ROLES, Start(m)
    PROVE  DiscoveryInv'
<1>1. /\ TypeOK /\ Files /\ Settling
      /\ phase[m] = "off" /\ waited[m] = 0 /\ ip[m] \in Address
  BY DEF DiscoveryInv, Settling, Start, Up, TypeOK
<1>2. /\ phase' = [phase EXCEPT ![m] = "search"] /\ Set(m, m, ip[m]) /\ due' = due \cup {m}
      /\ UNCHANGED <<ip, done, listening, net, waited, env, incidents,
                    reported, outdated, missed>>
  BY DEF Start, Goto, history
<1>3. /\ peers' \in [VALID_ROLES -> [VALID_ROLES -> Address \cup {Unknown}]]
      /\ peers'[m][m] = ip[m]
      /\ \A n, o \in VALID_ROLES : n # m \/ o # m => peers'[n][o] = peers[n][o]
  BY <1>1, <1>2, Entered
<1>4. /\ phase'[m] = "search" /\ \A n \in VALID_ROLES : n # m => phase'[n] = phase[n]
      /\ phase' \in [VALID_ROLES -> {"absent", "off", "search", "ready"}]
  BY <1>1, <1>2 DEF TypeOK
<1>5. TypeOK'
  BY <1>1, <1>2, <1>3, <1>4, Addresses DEF TypeOK, Up, Known
<1>6. Files'
  <2> SUFFICES ASSUME NEW n \in VALID_ROLES, NEW r \in VALID_ROLES
               PROVE  /\ phase'[n] # "ready" /\ <<n, r>> \in reported => Known(n, r)'
                      /\ phase'[n] # "ready" /\ Known(n, r)' => Fits(n, r, peers[n][r])'
                      /\ phase'[n] = "ready" => Entry(n, r, env[n][r])'
    BY <1>2 DEF Files
  <2>1. ip[m] # Unknown
    BY <1>1, Addresses
  <2>2. CASE n = m /\ r = m
    BY <1>2, <1>3, <1>4, <2>1, <2>2 DEF Known, Fits
  <2>3. CASE n # m \/ r # m
    <3>1. peers'[n][r] = peers[n][r] /\ (phase'[n] = "ready" <=> phase[n] = "ready")
      BY <1>1, <1>3, <1>4, <2>3
    <3> QED
      BY <1>1, <1>2, <3>1 DEF Files, Known, Fits, Entry
  <2> QED
    BY <2>2, <2>3
<1>7. Settling'
  BY <1>1, <1>2, <1>4 DEF Settling, Up, Searching
<1>8. ASSUME NEW n \in VALID_ROLES, NEW r \in VALID_ROLES PROVE Meeting(n, r)'
  <2>1. CASE n = m \/ r = m
    BY <1>1, <1>2, <2>1 DEF Meeting, Both
  <2>2. CASE n # m /\ r # m
    <3>1. Meeting(n, r) /\ peers'[n][r] = peers[n][r] /\ Searching(n)' = Searching(n)
          /\ Searching(r)' = Searching(r) /\ (r \in due' <=> r \in due)
      BY <1>2, <1>3, <1>4, <2>2 DEF DiscoveryInv, Searching
    <3>2. waited[n] \in Nat /\ waited[r] \in Nat
      BY <1>1, Bounds DEF TypeOK
    <3> QED
      BY <1>2, <3>1, <3>2, MeetingKept
  <2> QED
    BY <2>1, <2>2
<1> QED
  BY <1>5, <1>6, <1>7, <1>8 DEF DiscoveryInv

LEMMA EndStep ==
    ASSUME DiscoveryInv, NEW m \in VALID_ROLES, GiveUp(m) \/ Configure(m)
    PROVE  DiscoveryInv'
<1>1. TypeOK /\ Files /\ Settling /\ phase[m] = "search"
  BY DEF DiscoveryInv, GiveUp, Configure, Searching
<1>2. /\ UNCHANGED <<ip, peers, listening, due, net, waited, incidents,
                    reported, outdated, missed>>
      /\ \A n \in VALID_ROLES : Searching(n)' => Searching(n)
      /\ \A n \in VALID_ROLES : Up(n)' <=> Up(n)
      /\ phase' \in [VALID_ROLES -> {"absent", "off", "search", "ready"}]
      /\ done' \in [VALID_ROLES -> BOOLEAN]
  BY <1>1 DEF GiveUp, Configure, Goto, Searching, Up, TypeOK, network, table, history
<1>3. TypeOK' /\ Files'
  <2>1. CASE GiveUp(m)
    BY <1>1, <1>2, <2>1 DEF GiveUp, TypeOK, Files, Known, Fits, Entry
  <2>2. CASE Configure(m)
    <3> DEFINE file == [r \in VALID_ROLES |-> IF Known(m, r) THEN peers[m][r] ELSE Loopback]
    <3>1. /\ env' = [env EXCEPT ![m] = file] /\ phase' = [phase EXCEPT ![m] = "ready"]
          /\ done' = done
      BY <2>2 DEF Configure, Goto, table
    <3>2. file \in [VALID_ROLES -> Address \cup {Loopback}]
      BY <1>1 DEF TypeOK, Known
    <3>3. \A r \in VALID_ROLES : Entry(m, r, file[r])
      BY <1>1 DEF Files, Entry
    <3> HIDE DEF file
    <3>4. TypeOK'
      BY <1>1, <1>2, <3>1, <3>2 DEF TypeOK, Known
    <3>5. Files'
      <4>1. /\ env'[m] = file /\ \A n \in VALID_ROLES : n # m => env'[n] = env[n]
            /\ phase'[m] = "ready" /\ \A n \in VALID_ROLES : n # m => phase'[n] = phase[n]
        BY <1>1, <3>1 DEF TypeOK
      <4> QED
        BY <1>1, <1>2, <3>3, <4>1 DEF Files, Known, Fits, Entry
    <3> QED
      BY <3>4, <3>5
  <2> QED
    BY <2>1, <2>2
<1>4. Settling'
  BY <1>1, <1>2 DEF Settling
<1>5. ASSUME NEW n \in VALID_ROLES, NEW r \in VALID_ROLES PROVE Meeting(n, r)'
  <2>1. waited[n] \in Nat /\ waited[r] \in Nat /\ Meeting(n, r)
    BY Bounds DEF DiscoveryInv, TypeOK
  <2> QED
    BY <1>2, <2>1, MeetingKept
<1> QED
  BY <1>3, <1>4, <1>5 DEF DiscoveryInv

LEMMA BroadcastStep ==
    ASSUME DiscoveryInv, NEW m \in VALID_ROLES, Broadcast(m)
    PROVE  DiscoveryInv'
<1>1. TypeOK /\ Files /\ Settling /\ ip[m] \in Address
  BY DEF DiscoveryInv, TypeOK
<1>2. /\ due' = due \ {m}
      /\ net' = net \cup [to : {o \in VALID_ROLES \ {m} : listening[o]}, role : {m},
                         ip : {ip[m]}]
      /\ UNCHANGED <<ip, phase, peers, done, listening, waited, env, incidents,
                    reported, outdated, missed>>
  BY DEF Broadcast, table, history
<1>3. \A p \in net' : p \in net \/ (p.to \in VALID_ROLES /\ p.role = m /\ p.ip = ip[m])
  BY <1>2
<1>4. TypeOK' /\ Files'
  <2>1. net' \subseteq [to : VALID_ROLES, role : VALID_ROLES, ip : Address]
    BY <1>1, <1>2 DEF TypeOK
  <2>2. TypeOK'
    BY <1>1, <1>2, <2>1 DEF TypeOK, Up, Known
  <2> QED
    BY <1>1, <1>2, <2>2 DEF Files, Known, Fits, Entry
<1>5. Settling'
  BY <1>1, <1>2, <1>3 DEF Settling, Up, Searching
<1>6. ASSUME NEW n \in VALID_ROLES, NEW r \in VALID_ROLES PROVE Meeting(n, r)'
  <2>1. Meeting(n, r) /\ (waited[n] >= 1 /\ Searching(n) => listening[n])
    BY <1>1 DEF DiscoveryInv, Settling
  <2>2. CASE r # m
    <3>1. waited[n] \in Nat /\ waited[r] \in Nat
      BY <1>1, Bounds DEF TypeOK
    <3>2. Searching(n)' = Searching(n) /\ Searching(r)' = Searching(r)
      BY <1>2 DEF Searching
    <3> QED
      BY <1>2, <2>1, <2>2, <3>1, <3>2, MeetingKept
  <2>3. CASE r = m
    <3>1. n # m /\ listening[n] => Packet(n, m) \in net'
      BY <1>2 DEF Packet
    <3>2. Both(n, r, 1)' => n # m /\ listening[n]
      BY <1>2, <2>1, <2>3 DEF Both, Searching
    <3>3. Both(n, r, 2)' => Both(n, r, 2)
      BY <1>2 DEF Both, Searching
    <3>4. Packet(n, r)' = Packet(n, r)
      BY <1>2 DEF Packet
    <3> QED
      BY <1>2, <2>1, <2>3, <3>1, <3>2, <3>3, <3>4 DEF Meeting
  <2> QED
    BY <2>2, <2>3
<1> QED
  BY <1>4, <1>5, <1>6 DEF DiscoveryInv

\* The steps that open or close a socket or lose what was sent to it.
LEMMA SocketStep ==
    ASSUME DiscoveryInv, NEW m \in VALID_ROLES, Bind(m) \/ CloseSocket(m)
    PROVE  DiscoveryInv'
<1>1. TypeOK /\ Files /\ Settling
  BY DEF DiscoveryInv
<1>2. /\ UNCHANGED <<ip, phase, peers, done, due, waited, env, incidents,
                    reported, outdated, missed>>
      /\ listening' \in [VALID_ROLES -> BOOLEAN]
      /\ \A n \in VALID_ROLES : Searching(n) /\ listening[n] => listening'[n]
      /\ net' \subseteq net
      /\ \A p \in net \ net' : p.to = m /\ ~Searching(m)
  BY <1>1 DEF Bind, CloseSocket, Unheard, Searching, TypeOK, table, history
<1>3. TypeOK' /\ Files'
  BY <1>1, <1>2 DEF TypeOK, Files, Up, Known, Fits, Entry
<1>4. \A n \in VALID_ROLES : Searching(n)' = Searching(n)
  BY <1>2 DEF Searching
<1>5. Settling'
  BY <1>1, <1>2, <1>4 DEF Settling, Up
<1>6. ASSUME NEW n \in VALID_ROLES, NEW r \in VALID_ROLES PROVE Meeting(n, r)'
  <2>1. waited[n] \in Nat /\ waited[r] \in Nat /\ Meeting(n, r)
    BY Bounds DEF DiscoveryInv, TypeOK
  <2>2. Searching(n) /\ Packet(n, r) \in net => Packet(n, r) \in net'
    BY <1>2 DEF Packet
  <2> QED
    BY <1>2, <1>4, <2>1, <2>2, MeetingKept
<1> QED
  BY <1>3, <1>5, <1>6 DEF DiscoveryInv

LEMMA LoseStep ==
    ASSUME DiscoveryInv, Lose
    PROVE  DiscoveryInv'
<1>1. TypeOK /\ Files /\ Settling
  BY DEF DiscoveryInv
<1>2. PICK p \in net : net' = net \ {p} /\ missed' = missed \cup {<<p.to, p.role>>}
  BY DEF Lose
<1>3. /\ UNCHANGED <<ip, phase, peers, done, listening, due, waited, env, reported, outdated>>
      /\ incidents' \in Nat
  BY <1>1 DEF Lose, Happens, TypeOK, table
<1>4. <<p.to, p.role>> \in VALID_ROLES \X VALID_ROLES
  BY <1>1 DEF TypeOK
<1>5. TypeOK' /\ Files'
  BY <1>1, <1>2, <1>3, <1>4 DEF TypeOK, Files, Up, Known, Fits, Entry
<1>6. \A n \in VALID_ROLES : Searching(n)' = Searching(n)
  BY <1>3 DEF Searching
<1>7. Settling'
  BY <1>1, <1>2, <1>3, <1>6 DEF Settling, Up
<1>8. ASSUME NEW n \in VALID_ROLES, NEW r \in VALID_ROLES PROVE Meeting(n, r)'
  <2>1. waited[n] \in Nat /\ waited[r] \in Nat /\ Meeting(n, r)
    BY Bounds DEF DiscoveryInv, TypeOK
  <2>2. Packet(n, r) \in net /\ <<n, r>> \notin missed' => Packet(n, r) \in net'
    BY <1>2 DEF Packet
  <2> QED
    BY <1>2, <1>3, <1>6, <2>1, <2>2, MeetingKept
<1> QED
  BY <1>5, <1>7, <1>8 DEF DiscoveryInv
--------------------------------------------------------------------------------
\* A machine is told of another, by a packet or over HTTP.
LEMMA TellStep ==
    ASSUME DiscoveryInv, NEW m \in VALID_ROLES, NEW r \in VALID_ROLES, NEW a \in Address,
           waited[r] >= 1 => a = ip[r],
           Set(m, r, a) \/ (UNCHANGED peers /\ peers[m][r] = a), Told(m, r, a),
           UNCHANGED <<ip, phase, due, waited, env, missed>>,
           done' \in [VALID_ROLES -> BOOLEAN], listening' \in [VALID_ROLES -> BOOLEAN],
           \A n \in VALID_ROLES : done[n] => done'[n],
           \A n \in VALID_ROLES : Searching(n)' /\ listening[n] => listening'[n],
           net' \subseteq net,
           \A p \in net \ net' : p.to = m /\ (Searching(m)' => p.role = r),
           incidents' \in Nat
    PROVE  DiscoveryInv'
<1>1. TypeOK /\ Files /\ Settling
  BY DEF DiscoveryInv
<1>2. /\ peers' \in [VALID_ROLES -> [VALID_ROLES -> Address \cup {Unknown}]]
      /\ peers'[m][r] = a
      /\ \A n, o \in VALID_ROLES : n # m \/ o # r => peers'[n][o] = peers[n][o]
  <2>1. CASE Set(m, r, a)
    BY <1>1, <2>1, Entered
  <2>2. CASE UNCHANGED peers /\ peers[m][r] = a
    BY <1>1, <2>2 DEF TypeOK
  <2> QED
    BY <2>1, <2>2
<1>3. /\ Known(m, r)'
      /\ \A n, o \in VALID_ROLES : Known(n, o) => Known(n, o)'
  BY <1>2, Addresses DEF Known
<1>4. /\ reported' \subseteq reported \cup {<<m, r>>}
      /\ reported \subseteq reported'
      /\ outdated' \subseteq outdated \cup {<<m, r>>}
      /\ \A x : x # <<m, r>> => (x \in outdated' <=> x \in outdated)
      /\ phase[m] = "ready" => reported' = reported /\ outdated' = outdated
      /\ phase[m] # "ready" => a = ip[r] \/ <<m, r>> \in outdated'
  BY DEF Told
<1>5. TypeOK'
  BY <1>1, <1>2, <1>3, <1>4 DEF TypeOK, Up
<1>7. Files'
  <2> SUFFICES ASSUME NEW n \in VALID_ROLES, NEW o \in VALID_ROLES
               PROVE  /\ phase[n] # "ready" /\ <<n, o>> \in reported' => Known(n, o)'
                      /\ phase[n] # "ready" /\ Known(n, o)' => Fits(n, o, peers[n][o])'
                      /\ phase[n] = "ready" => Entry(n, o, env[n][o])'
    BY DEF Files
  <2>1. CASE n = m /\ o = r
    BY <1>1, <1>2, <1>3, <1>4, <2>1 DEF Files, Fits, Entry
  <2>2. CASE n # m \/ o # r
    <3>1. /\ peers'[n][o] = peers[n][o]
          /\ <<n, o>> \in reported' <=> <<n, o>> \in reported
          /\ <<n, o>> \in outdated' <=> <<n, o>> \in outdated
      BY <1>2, <1>4, <2>2
    <3> QED
      BY <1>1, <3>1 DEF Files, Known, Fits, Entry
  <2> QED
    BY <2>1, <2>2
<1>8. \A n \in VALID_ROLES : Searching(n)' => Searching(n)
  BY DEF Searching
<1>9. Settling'
  BY <1>1, <1>8 DEF Settling, Up
<1>10. ASSUME NEW n \in VALID_ROLES, NEW o \in VALID_ROLES PROVE Meeting(n, o)'
  <2>1. waited[n] \in Nat /\ waited[o] \in Nat /\ Meeting(n, o)
    BY Bounds DEF DiscoveryInv, TypeOK
  <2>2. waited[o] >= 1 /\ peers[n][o] = ip[o] => peers'[n][o] = ip[o]
    BY <1>2
  <2>3. Searching(n)' /\ waited[o] >= 1 /\ Packet(n, o) \in net /\ Packet(n, o) \notin net'
            => peers'[n][o] = ip[o]
    BY <1>2 DEF Packet
  <2>4. CASE waited[o] >= 1
    BY <1>8, <2>1, <2>2, <2>3, <2>4, MeetingKept
  <2>5. CASE ~(waited[o] >= 1)
    BY <2>1, <2>5 DEF Meeting, Both
  <2> QED
    BY <2>4, <2>5
<1> QED
  BY <1>5, <1>7, <1>9, <1>10 DEF DiscoveryInv

LEMMA ReceiveStep ==
    ASSUME DiscoveryInv, NEW m \in VALID_ROLES, Receive(m)
    PROVE  DiscoveryInv'
<1>1. TypeOK /\ Files /\ Settling
  BY DEF DiscoveryInv
<1>2. PICK p \in net :
        /\ p.to = m
        /\ Record(m, p.role, p.ip)
        /\ Told(m, p.role, p.ip)
        /\ listening' = [listening EXCEPT ![m] = ~done'[m]]
        /\ net' = IF done'[m] THEN Unheard(net, m) ELSE net \ {p}
  BY DEF Receive
<1>3. UNCHANGED <<ip, phase, due, waited, env, incidents, missed>>
  BY DEF Receive
<1>4. /\ p.role \in VALID_ROLES /\ p.ip \in Address
      /\ waited[p.role] >= 1 => p.ip = ip[p.role]
  BY <1>1 DEF TypeOK, Settling
<1>5. /\ Set(m, p.role, p.ip) \/ (UNCHANGED peers /\ peers[m][p.role] = p.ip)
      /\ done' \in [VALID_ROLES -> BOOLEAN]
      /\ \A n \in VALID_ROLES : done[n] => done'[n]
  BY <1>1, <1>2 DEF Record, CheckAllDiscovered, table, TypeOK
<1>6. /\ listening' \in [VALID_ROLES -> BOOLEAN]
      /\ \A n \in VALID_ROLES : Searching(n)' /\ listening[n] => listening'[n]
  BY <1>1, <1>2, <1>5 DEF TypeOK, Searching
<1>7. /\ net' \subseteq net
      /\ \A q \in net \ net' : q.to = m /\ (Searching(m)' => q.role = p.role)
  BY <1>2 DEF Unheard, Searching
<1>8. incidents' \in Nat
  BY <1>1, <1>3 DEF TypeOK
<1> QED
  BY <1>2, <1>3, <1>4, <1>5, <1>6, <1>7, <1>8, TellStep

LEMMA RegisterStep ==
    ASSUME DiscoveryInv, NEW m \in VALID_ROLES, NEW r \in VALID_ROLES, RegisterPeer(m, r)
    PROVE  DiscoveryInv'
<1>1. TypeOK
  BY DEF DiscoveryInv
<1>2. /\ Set(m, r, ip[r]) /\ Told(m, r, ip[r])
      /\ UNCHANGED <<ip, phase, done, listening, due, net, waited, env, missed>>
  BY DEF RegisterPeer, network
<1>3. incidents' \in Nat
  BY <1>1 DEF RegisterPeer, Happens, TypeOK
<1>4. ip[r] \in Address
  BY <1>1 DEF TypeOK
<1>5. /\ done' \in [VALID_ROLES -> BOOLEAN] /\ listening' \in [VALID_ROLES -> BOOLEAN]
      /\ net' = net
  BY <1>1, <1>2 DEF TypeOK
<1> QED
  BY <1>2, <1>3, <1>4, <1>5, TellStep
--------------------------------------------------------------------------------
LEMMA KillStep ==
    ASSUME DiscoveryInv, NEW m \in VALID_ROLES, Kill(m)
    PROVE  DiscoveryInv'
<1>1. TypeOK /\ Files /\ Settling
  BY DEF DiscoveryInv
<1>2. PICK moves \in BOOLEAN :
        /\ ip' = IF moves THEN [ip EXCEPT ![m] = <<m, ip[m][2] + 1>>] ELSE ip
        /\ outdated' = {x \in outdated : x[1] # m}
                           \cup {<<n, m>> : n \in IF moves THEN VALID_ROLES \ {m} ELSE {}}
  BY DEF Kill
<1>3. /\ phase' = [phase EXCEPT ![m] = "off"] /\ peers' = [peers EXCEPT ![m] = Nobody]
      /\ done' = [done EXCEPT ![m] = FALSE] /\ listening' = [listening EXCEPT ![m] = FALSE]
      /\ waited' = [waited EXCEPT ![m] = 0] /\ due' = due \ {m} /\ net' = Unheard(net, m)
      /\ reported' = {x \in reported : x[1] # m} /\ missed' = {x \in missed : x[1] # m}
      /\ env' = env
  BY DEF Kill, Goto
<1>4. /\ ip' \in [VALID_ROLES -> Address]
      /\ \A n \in VALID_ROLES : n # m => ip'[n] = ip[n]
  <2>1. ip[m][2] \in Nat \ {0}
    BY <1>1 DEF TypeOK, Address
  <2>2. <<m, ip[m][2] + 1>> \in Address
    BY <2>1 DEF Address
  <2> QED
    BY <1>1, <1>2, <2>2 DEF TypeOK
<1>5. /\ Nobody \in [VALID_ROLES -> Address \cup {Unknown}]
      /\ \A r \in VALID_ROLES : ~Known(m, r)'
  BY <1>1, <1>3 DEF Nobody, Known, TypeOK
<1>6. incidents' \in Nat
  BY <1>1 DEF Kill, Happens, TypeOK
<1>7. /\ phase' \in [VALID_ROLES -> {"absent", "off", "search", "ready"}]
      /\ peers' \in [VALID_ROLES -> [VALID_ROLES -> Address \cup {Unknown}]]
      /\ done' \in [VALID_ROLES -> BOOLEAN] /\ listening' \in [VALID_ROLES -> BOOLEAN]
      /\ waited' \in [VALID_ROLES -> 0..DISCOVERY_TIMEOUT]
      /\ due' \subseteq VALID_ROLES /\ net' \subseteq net
      /\ reported' \subseteq reported /\ missed' \subseteq missed
  <2>1. 0 \in 0..DISCOVERY_TIMEOUT
    BY Bounds
  <2>2. /\ phase' \in [VALID_ROLES -> {"absent", "off", "search", "ready"}]
        /\ done' \in [VALID_ROLES -> BOOLEAN] /\ listening' \in [VALID_ROLES -> BOOLEAN]
    BY <1>1, <1>3 DEF TypeOK
  <2>3. peers' \in [VALID_ROLES -> [VALID_ROLES -> Address \cup {Unknown}]]
    BY <1>1, <1>3, <1>5 DEF TypeOK
  <2>4. waited' \in [VALID_ROLES -> 0..DISCOVERY_TIMEOUT]
    <3> DEFINE D == 0..DISCOVERY_TIMEOUT
    <3>1. waited \in [VALID_ROLES -> D] /\ 0 \in D
      BY <1>1, <2>1 DEF TypeOK
    <3> HIDE DEF D
    <3>2. waited' \in [VALID_ROLES -> D]
      BY <1>3, <3>1
    <3> QED
      BY <3>2 DEF D
  <2>5. /\ due' \subseteq VALID_ROLES /\ net' \subseteq net
        /\ reported' \subseteq reported /\ missed' \subseteq missed
    BY <1>1, <1>3 DEF TypeOK, Unheard
  <2> QED
    BY <2>2, <2>3, <2>4, <2>5
<1>8. /\ phase'[m] = "off" /\ waited'[m] = 0
      /\ \A n \in VALID_ROLES : n # m =>
            /\ phase'[n] = phase[n] /\ peers'[n] = peers[n] /\ done'[n] = done[n]
            /\ listening'[n] = listening[n] /\ waited'[n] = waited[n]
            /\ Searching(n)' = Searching(n)
            /\ \A r \in VALID_ROLES : Known(n, r)' = Known(n, r)
  BY <1>1, <1>3 DEF TypeOK, Searching, Known
<1>9. TypeOK'
  <2>1. outdated' \subseteq VALID_ROLES \X VALID_ROLES
    BY <1>1, <1>2 DEF TypeOK
  <2>2. reported' \cup outdated' \cup missed' \subseteq VALID_ROLES \X VALID_ROLES
    BY <1>1, <1>7, <2>1 DEF TypeOK
  <2> QED
    BY <1>1, <1>3, <1>4, <1>6, <1>7, <1>8, <2>2 DEF TypeOK, Up
<1>10. \A n, r \in VALID_ROLES : n # m => ip'[r] = ip[r] \/ <<n, r>> \in outdated'
  <2> SUFFICES ASSUME NEW n \in VALID_ROLES, NEW r \in VALID_ROLES, n # m
               PROVE  ip'[r] = ip[r] \/ <<n, r>> \in outdated'
    OBVIOUS
  <2>1. CASE r # m
    BY <1>4, <2>1
  <2>2. CASE r = m /\ moves
    BY <1>2, <2>2
  <2>3. CASE ~moves
    BY <1>2, <2>3
  <2> QED
    BY <2>1, <2>2, <2>3
<1>11. Files'
  <2> SUFFICES ASSUME NEW n \in VALID_ROLES, NEW r \in VALID_ROLES
               PROVE  /\ phase'[n] # "ready" /\ <<n, r>> \in reported' => Known(n, r)'
                      /\ phase'[n] # "ready" /\ Known(n, r)' => Fits(n, r, peers[n][r])'
                      /\ phase'[n] = "ready" => Entry(n, r, env[n][r])'
    BY DEF Files
  <2>1. CASE n = m
    BY <1>3, <1>5, <1>8, <2>1
  <2>2. CASE n # m
    <3>1. /\ env'[n] = env[n] /\ peers'[n] = peers[n] /\ phase'[n] = phase[n]
          /\ <<n, r>> \in reported' => <<n, r>> \in reported
          /\ Known(n, r)' = Known(n, r)
      BY <1>3, <1>8, <2>2
    <3>2. ip'[r] = ip[r] \/ <<n, r>> \in outdated'
      BY <1>10, <2>2
    <3>3. <<n, r>> \in outdated => <<n, r>> \in outdated'
      BY <1>2, <2>2
    <3> QED
      BY <1>1, <1>3, <3>1, <3>2, <3>3 DEF Files, Fits, Entry
  <2> QED
    BY <2>1, <2>2
<1>12. Settling'
  <2>1. ASSUME NEW n \in VALID_ROLES
        PROVE  /\ ~Up(n)' => waited'[n] = 0
               /\ Searching(n)' /\ waited'[n] >= 1 => listening'[n]
    <3>1. CASE n = m
      BY <1>8, <3>1 DEF Searching
    <3>2. CASE n # m
      BY <1>1, <1>8, <3>2 DEF Settling, Up
    <3> QED
      BY <3>1, <3>2
  <2>2. ASSUME NEW n \in VALID_ROLES, waited'[n] >= 1, NEW p \in net', p.role = n
        PROVE  p.ip = ip'[n]
    <3>1. n # m
      BY <1>8, <2>2
    <3> QED
      BY <1>1, <1>4, <1>7, <1>8, <2>2, <3>1 DEF Settling
  <2> QED
    BY <2>1, <2>2 DEF Settling
<1>13. ASSUME NEW n \in VALID_ROLES, NEW r \in VALID_ROLES PROVE Meeting(n, r)'
  <2>1. CASE n = m \/ r = m
    BY <1>8, <2>1 DEF Meeting, Both
  <2>2. CASE n # m /\ r # m
    <3>1. waited[n] \in Nat /\ waited[r] \in Nat /\ Meeting(n, r)
      BY Bounds DEF DiscoveryInv, TypeOK
    <3>2. Packet(n, r) \in net => Packet(n, r) \in net'
      BY <1>3, <2>2 DEF Packet, Unheard
    <3>3. <<n, r>> \in missed => <<n, r>> \in missed'
      BY <1>3, <2>2
    <3>4. r \in due => r \in due'
      BY <1>3, <2>2
    <3> QED
      BY <1>4, <1>8, <2>2, <3>1, <3>2, <3>3, <3>4, MeetingKept
  <2> QED
    BY <2>1, <2>2
<1> QED
  BY <1>9, <1>11, <1>12, <1>13 DEF DiscoveryInv

LEMMA TickStep ==
    ASSUME DiscoveryInv, Tick
    PROVE  DiscoveryInv'
<1>1. TypeOK /\ Files /\ Settling
  BY DEF DiscoveryInv
<1>2. /\ net = {} /\ due' = {m \in VALID_ROLES : Searching(m)}
      /\ waited' = [m \in VALID_ROLES |-> waited[m] + IF m \in due' THEN 1 ELSE 0]
      /\ UNCHANGED <<ip, phase, peers, done, listening, net, env, incidents,
                    reported, outdated, missed>>
  BY DEF Tick, table, history
<1>3. \A m \in VALID_ROLES :
        /\ Searching(m) => listening[m] /\ waited[m] < DISCOVERY_TIMEOUT /\ m \notin due
        /\ Searching(m)' = Searching(m)
        /\ waited[m] \in 0..DISCOVERY_TIMEOUT
        /\ waited'[m] = IF Searching(m) THEN waited[m] + 1 ELSE waited[m]
  BY <1>1, <1>2 DEF Tick, Settled, Searching, TypeOK
<1>4. waited' \in [VALID_ROLES -> 0..DISCOVERY_TIMEOUT]
  <2>1. \A m \in VALID_ROLES : waited'[m] \in 0..DISCOVERY_TIMEOUT
    BY <1>3, Bounds
  <2>2. waited' = [m \in VALID_ROLES |-> waited'[m]]
    BY <1>2
  <2> QED
    BY <2>1, <2>2
<1>5. TypeOK'
  BY <1>1, <1>2, <1>4 DEF TypeOK, Up, Known
<1>6. Files'
  BY <1>1, <1>2 DEF Files, Known, Fits, Entry
<1>7. Settling'
  <2>1. \A m \in VALID_ROLES : ~Up(m) => ~Searching(m)
    BY DEF Up, Searching
  <2> QED
    BY <1>1, <1>2, <1>3, <2>1 DEF Settling, Up
<1>8. ASSUME NEW n \in VALID_ROLES, NEW r \in VALID_ROLES PROVE Meeting(n, r)'
  <2>1. Meeting(n, r)
    BY DEF DiscoveryInv
  <2>2. Both(n, r, 1)' => r \in due'
    BY <1>2, <1>3 DEF Both
  <2>3. Both(n, r, 2)' => Both(n, r, 1) /\ r \notin due
    BY <1>2, <1>3, Bounds DEF Both
  <2> QED
    BY <1>2, <2>1, <2>2, <2>3 DEF Meeting
<1> QED
  BY <1>5, <1>6, <1>7, <1>8 DEF DiscoveryInv

LEMMA DiscoveryStep == DiscoveryInv /\ [Next]_vars => DiscoveryInv'
<1> SUFFICES ASSUME DiscoveryInv, [Next]_vars PROVE DiscoveryInv'
  OBVIOUS
<1>1. CASE Next
  BY <1>1, StartStep, EndStep, BroadcastStep, SocketStep, ReceiveStep, RegisterStep,
     KillStep, LoseStep, TickStep DEF Next, Run
<1>2. CASE UNCHANGED vars
  <2>1. UNCHANGED <<ip, phase, peers, done, listening, due, net, waited, env, incidents,
                    reported, outdated, missed>>
    BY <1>2 DEF vars, table, network, history
  <2>2. TypeOK' /\ Files' /\ Settling'
    BY <2>1 DEF DiscoveryInv, TypeOK, Files, Settling, Up, Known, Searching, Fits,
       Entry
  <2>3. \A m, r \in VALID_ROLES : Meeting(m, r)'
    BY <2>1 DEF DiscoveryInv, Meeting, Both, Packet, Searching
  <2> QED
    BY <2>2, <2>3 DEF DiscoveryInv
<1> QED
  BY <1>1, <1>2

LEMMA DiscoveryInvariant == Spec => []DiscoveryInv
  BY DiscoveryInit, DiscoveryStep, PTL DEF Spec
--------------------------------------------------------------------------------
\* Every variable keeps its type, in every reachable state.
THEOREM TypeCorrect == Spec => []TypeOK
<1>1. DiscoveryInv => TypeOK
  BY DEF DiscoveryInv
<1> QED
  BY <1>1, DiscoveryInvariant, PTL

\* broadcaster_loop and listener_loop: two machines that have searched together for an
\* interval know each other's present address, for any timeout and any number of kills,
\* new addresses, lost packets and registrations.
THEOREM MachinesMeet == Spec => []RunningTogetherIsEnough
<1>1. DiscoveryInv => RunningTogetherIsEnough
  BY DEF DiscoveryInv, Meeting, Both, RunningTogetherIsEnough
<1> QED
  BY <1>1, DiscoveryInvariant, PTL

\* write_resolved_env: every service is looked for at the present address of the system
\* that runs it, or on the machine itself if nobody told it of that system, or at an old
\* address if that system moved after the last that was said of it.
THEOREM FilesPointToSystems == Spec => []CallsReachTheirSystem
<1>1. DiscoveryInv => CallsReachTheirSystem
  <2> SUFFICES ASSUME DiscoveryInv, NEW m \in VALID_ROLES, NEW r \in VALID_ROLES,
                      phase[m] = "ready", NEW s \in ROLE_SERVICES[r]
               PROVE  LET host == env[m][UrlRole(s)]
                      IN  \/ host = ip[r]
                          \/ host = Loopback /\ <<m, r>> \notin reported
                          \/ <<m, r>> \in outdated
    BY DEF CallsReachTheirSystem
  <2>1. UrlRole(s) = r
    BY DEF UrlRole, ROLE_SERVICES, VALID_ROLES
  <2>2. Entry(m, r, env[m][r])
    BY DEF DiscoveryInv, Files
  <2> QED
    BY <2>1, <2>2 DEF Entry, Fits
<1> QED
  BY <1>1, DiscoveryInvariant, PTL
================================================================================
