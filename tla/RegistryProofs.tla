----------------------------- MODULE RegistryProofs -----------------------------
(***************************************************************************)
(* Theorems about Registry, for any processes, TTL, heartbeat and outages. *)
(***************************************************************************)
EXTENDS Registry, TLAPS

\* An outage never lasts longer than its bound, and a running process has not been
\* dead for any time.
Clocks == /\ ~redisUp => since <= MaxOutage
          /\ \A i \in alive : deadFor[i] = 0

\* A process whose last heartbeat met an outage has slept since before the outage
\* ended.
MissedBeforeBack == \A i \in alive : missed[i] /\ redisUp => since <= slept[i]

\* How old the key of a registered process can be, by what its last heartbeat did:
\* it got through; it missed, and the outage goes on; it missed, and Redis is back.
AgeBound ==
    \A i \in alive :
        listed[i] /\ ~lost[ServiceOf[i]] =>
            /\ ~missed[i] => age[ServiceOf[i]] <= slept[i]
            /\ missed[i] /\ ~redisUp => age[ServiceOf[i]] <= Late + since
            /\ missed[i] /\ redisUp => age[ServiceOf[i]] <= Late + MaxOutage + since

\* A key is no older than the death of the last process that kept it.
LastKeeper == \A n \in Services : key[n] # None =>
                 \E i \in Inst : ServiceOf[i] = n /\ deadFor[i] <= age[n]

LEMMA Bounds == /\ Late \in Nat /\ SinceMax \in Nat /\ TTL \in Nat /\ TTL > 0
                /\ MaxOutage \in Nat /\ MinUptime \in Nat /\ HB \in Nat
                /\ HB <= Late /\ MaxOutage <= SinceMax /\ MinUptime <= SinceMax
  BY RegistryAssumption DEF Late, SinceMax

LEMMA Aging == ASSUME NEW bound \in Nat, NEW t \in 0..bound
               PROVE  /\ Older(t, bound) \in 0..bound
                      /\ Older(t, bound) <= t + 1 /\ t <= Older(t, bound)
                      /\ t < bound => Older(t, bound) = t + 1
                      /\ t = bound => Older(t, bound) = bound
  BY DEF Older
--------------------------------------------------------------------------------
\* Type correctness.

LEMMA TypeInit == Init => TypeOK
<1> SUFFICES ASSUME Init PROVE TypeOK
  OBVIOUS
<1>1. 0 \in 0..SinceMax /\ 0 \in 0..Late /\ TTL \in 0..TTL
  BY Bounds
<1> QED
  BY <1>1, ZenonT(30) DEF Init, TypeOK

LEMMA TypeStep == TypeOK /\ [Next]_vars => TypeOK'
<1> SUFFICES ASSUME TypeOK, [Next]_vars PROVE TypeOK'
  OBVIOUS
<1> DEFINE KeyOK == \A n \in Services : key[n] = None <=> age[n] = TTL
<1>1. /\ 0 \in 0..SinceMax /\ 0 \in 0..Late /\ TTL \in 0..TTL /\ 0 \in 0..TTL
      /\ 0 # TTL
  BY Bounds
<1>2. ServiceOf \in [Inst -> Services] /\ None \notin Inst
  BY RegistryAssumption
<1>3. ASSUME NEW i \in Inst, Start(i) PROVE TypeOK'
  <2>1. key' \in [Services -> Inst \cup {None}] /\ age' \in [Services -> 0..TTL] /\ KeyOK'
    BY <1>1, <1>2, <1>3 DEF Start, TypeOK
  <2> QED
    BY <1>1, <1>2, <1>3, <2>1, ZenonT(30) DEF Start, TypeOK
<1>4. ASSUME NEW i \in Inst, Die(i) PROVE TypeOK'
  BY <1>1, <1>4, ZenonT(30) DEF Die, TypeOK
<1>5. ASSUME NEW i \in Inst, Beat(i) PROVE TypeOK'
  <2>1. age' \in [Services -> 0..TTL] /\ KeyOK'
    BY <1>1, <1>2, <1>5 DEF Beat, TypeOK
  <2> QED
    BY <1>1, <1>5, <2>1, ZenonT(30) DEF Beat, TypeOK
<1>6. CASE Tick
  <2>1. since' \in 0..SinceMax
    BY <1>6, Bounds, Aging DEF Tick, TypeOK
  <2>2. slept' \in [Inst -> 0..Late]
    BY <1>6, Bounds DEF Tick, TypeOK
  <2>3. /\ age' \in [Services -> 0..TTL]
        /\ \A n \in Services : age[n] = TTL => age'[n] = TTL
    BY <1>6, Bounds, Aging DEF Tick, TypeOK
  <2>4. key' \in [Services -> Inst \cup {None}] /\ KeyOK'
    BY <1>6, <2>3 DEF Tick, TypeOK
  <2>5. deadFor' \in [Inst -> 0..TTL]
    BY <1>1, <1>6, Bounds, Aging DEF Tick, TypeOK
  <2> QED
    BY <1>6, <2>1, <2>2, <2>3, <2>4, <2>5, ZenonT(30) DEF Tick, TypeOK
<1>7. CASE RedisDown
  BY <1>1, <1>7, ZenonT(30) DEF RedisDown, TypeOK
<1>8. CASE RedisBack
  BY <1>1, <1>8, ZenonT(30) DEF RedisBack, TypeOK
<1>9. ASSUME NEW n \in Services, LoseKey(n) PROVE TypeOK'
  <2>1. key' \in [Services -> Inst \cup {None}] /\ age' \in [Services -> 0..TTL] /\ KeyOK'
    BY <1>1, <1>9 DEF LoseKey, TypeOK
  <2> QED
    BY <1>9, <2>1, ZenonT(30) DEF LoseKey, TypeOK
<1>10. CASE UNCHANGED vars
  BY <1>10, ZenonT(30) DEF vars, TypeOK
<1> QED
  BY <1>3, <1>4, <1>5, <1>6, <1>7, <1>8, <1>9, <1>10 DEF Next, Beats

\* Every reachable state of the registry is well typed, and a key is present
\* exactly as long as it has not expired.
THEOREM TypeCorrect == Spec => []TypeOK
  BY TypeInit, TypeStep, PTL DEF Spec

--------------------------------------------------------------------------------
\* A registered process stays listed.

\* AgeBound is the heart: LiveStaysListed is not inductive, because a present key
\* may be about to expire.  MissedBeforeBack keeps two outages from adding up: when
\* the next one may begin, every process has beaten since the last.
ListedInv == TypeOK /\ Clocks /\ MissedBeforeBack /\ AgeBound

LEMMA ListedInit == Init => Clocks /\ MissedBeforeBack /\ AgeBound
  BY Bounds DEF Init, Clocks, MissedBeforeBack, AgeBound

\* The bound on the age of a key leaves it no time to expire.
LEMMA KeyPresent ==
    ASSUME ListedInv, Tolerable, NEW i \in alive, listed[i], ~lost[ServiceOf[i]]
    PROVE  key[ServiceOf[i]] # None /\ age[ServiceOf[i]] < TTL
<1>1. ServiceOf[i] \in Services /\ i \in Inst
  BY RegistryAssumption DEF ListedInv, TypeOK
<1>2. /\ slept[i] \in 0..Late /\ since \in 0..SinceMax
      /\ age[ServiceOf[i]] \in 0..TTL
  BY <1>1 DEF ListedInv, TypeOK
<1>3. CASE ~missed[i]
  BY <1>1, <1>2, <1>3, Bounds DEF ListedInv, TypeOK, AgeBound, Tolerable
<1>4. CASE missed[i] /\ ~redisUp
  BY <1>1, <1>2, <1>4, Bounds DEF ListedInv, TypeOK, AgeBound, Tolerable, Clocks
<1>5. CASE missed[i] /\ redisUp
  BY <1>1, <1>2, <1>5, Bounds DEF ListedInv, TypeOK, AgeBound, Tolerable, MissedBeforeBack
<1> QED
  BY <1>3, <1>4, <1>5

LEMMA ClocksStep == ListedInv /\ [Next]_vars => Clocks' /\ MissedBeforeBack'
<1> SUFFICES ASSUME ListedInv, [Next]_vars PROVE Clocks' /\ MissedBeforeBack'
  OBVIOUS
<1> USE Bounds DEF ListedInv, TypeOK, Clocks, MissedBeforeBack
<1>1. ASSUME NEW i \in Inst, Start(i) PROVE Clocks' /\ MissedBeforeBack'
  BY <1>1 DEF Start
<1>2. ASSUME NEW i \in Inst, Die(i) PROVE Clocks' /\ MissedBeforeBack'
  BY <1>2 DEF Die
<1>3. ASSUME NEW i \in Inst, Beat(i) PROVE Clocks' /\ MissedBeforeBack'
  BY <1>3 DEF Beat
<1>4. CASE Tick
  <2>1. Clocks'
    BY <1>4 DEF Tick, Older
  <2>2. MissedBeforeBack'
    BY <1>4 DEF Tick, Older
  <2> QED
    BY <2>1, <2>2
<1>5. CASE RedisDown
  BY <1>5 DEF RedisDown
<1>6. CASE RedisBack
  BY <1>6 DEF RedisBack
<1>7. ASSUME NEW n \in Services, LoseKey(n) PROVE Clocks' /\ MissedBeforeBack'
  BY <1>7 DEF LoseKey
<1>8. CASE UNCHANGED vars
  BY <1>8 DEF vars
<1> QED
  BY <1>1, <1>2, <1>3, <1>4, <1>5, <1>6, <1>7, <1>8 DEF Next, Beats

LEMMA AgeStep == Tolerable /\ ListedInv /\ [Next]_vars => AgeBound'
<1> SUFFICES ASSUME Tolerable, ListedInv, [Next]_vars PROVE AgeBound'
  OBVIOUS
<1>1. ServiceOf \in [Inst -> Services] /\ alive \subseteq Inst
  BY RegistryAssumption DEF ListedInv, TypeOK
<1> USE Bounds DEF ListedInv, TypeOK, AgeBound
<1>2. ASSUME NEW i \in Inst, Start(i) PROVE AgeBound'
  <2>1. CASE redisUp
    <3>1. \A j \in Inst : ServiceOf[j] = ServiceOf[i] => age'[ServiceOf[j]] = 0
      BY <1>1, <1>2, <2>1 DEF Start
    <3>2. \A j \in Inst : ServiceOf[j] # ServiceOf[i] =>
             /\ j \in alive' => j \in alive
             /\ age'[ServiceOf[j]] = age[ServiceOf[j]] /\ slept'[j] = slept[j]
             /\ listed'[j] = listed[j] /\ lost'[ServiceOf[j]] = lost[ServiceOf[j]]
             /\ missed'[j] = missed[j]
      BY <1>1, <1>2, ZenonT(30) DEF Start
    <3>3. \A j \in Inst : slept'[j] \in 0..Late
      BY <1>2 DEF Start
    <3>4. UNCHANGED <<redisUp, since>> /\ alive' \subseteq Inst
      BY <1>1, <1>2 DEF Start
    <3> QED
      BY <3>1, <3>2, <3>3, <3>4
  <2>2. CASE ~redisUp
    <3>1. listed'[i] = FALSE
      BY <1>2, <2>2 DEF Start
    <3>2. \A j \in Inst : j # i =>
             /\ j \in alive' => j \in alive
             /\ slept'[j] = slept[j] /\ listed'[j] = listed[j]
             /\ missed'[j] = missed[j]
      BY <1>2, ZenonT(30) DEF Start
    <3>3. /\ UNCHANGED <<redisUp, since, age>> /\ alive' \subseteq Inst
          /\ \A n \in Services : lost'[n] = lost[n]
      BY <1>1, <1>2, <2>2 DEF Start
    <3> QED
      BY <1>1, <3>1, <3>2, <3>3
  <2> QED
    BY <2>1, <2>2
<1>3. ASSUME NEW i \in Inst, Die(i) PROVE AgeBound'
  BY <1>1, <1>3 DEF Die
<1>4. ASSUME NEW i \in Inst, Beat(i) PROVE AgeBound'
  <2>1. /\ UNCHANGED <<redisUp, since, alive, listed, lost>>
        /\ \A j \in Inst : j # i => slept'[j] = slept[j] /\ missed'[j] = missed[j]
        /\ slept'[i] = 0 /\ missed'[i] = ~redisUp
    BY <1>4 DEF Beat
  <2>2. ASSUME NEW j \in alive, listed[j], ~lost[ServiceOf[j]]
        PROVE  /\ ~missed'[j] => age'[ServiceOf[j]] <= slept'[j]
               /\ missed'[j] /\ ~redisUp => age'[ServiceOf[j]] <= Late + since
               /\ missed'[j] /\ redisUp =>
                      age'[ServiceOf[j]] <= Late + MaxOutage + since
    <3>1. key[ServiceOf[j]] # None
      BY <2>2, KeyPresent
    <3>2. CASE redisUp /\ ServiceOf[j] = ServiceOf[i]
      <4>1. age'[ServiceOf[j]] = 0
        BY <1>1, <1>4, <3>1, <3>2 DEF Beat
      <4>2. slept'[j] \in 0..Late
        BY <1>1, <1>4 DEF Beat
      <4> QED
        BY <4>1, <4>2
    <3>3. CASE redisUp /\ ServiceOf[j] # ServiceOf[i]
      <4>1. age'[ServiceOf[j]] = age[ServiceOf[j]] /\ j # i
        BY <1>1, <1>4, <3>3 DEF Beat
      <4> QED
        BY <1>1, <2>1, <2>2, <4>1
    <3>4. CASE ~redisUp
      <4>1. age' = age
        BY <1>4, <3>4 DEF Beat
      <4>2. age[ServiceOf[j]] \in 0..TTL /\ slept[j] \in 0..Late
        BY <1>1
      <4> QED
        BY <1>1, <2>1, <2>2, <3>4, <4>1, <4>2
    <3> QED
      BY <3>2, <3>3, <3>4
  <2> QED
    BY <2>1, <2>2
<1>5. CASE Tick
  <2>1. \A j \in alive :
           /\ slept'[j] = slept[j] + 1
           /\ age[ServiceOf[j]] \in 0..TTL /\ age'[ServiceOf[j]] <= age[ServiceOf[j]] + 1
           /\ slept[j] \in 0..Late
    <3> SUFFICES ASSUME NEW j \in alive
                 PROVE  /\ slept'[j] = slept[j] + 1
                        /\ age[ServiceOf[j]] \in 0..TTL
                        /\ age'[ServiceOf[j]] <= age[ServiceOf[j]] + 1
                        /\ slept[j] \in 0..Late
      OBVIOUS
    <3>1. j \in Inst /\ ServiceOf[j] \in Services
      BY <1>1
    <3>2. age'[ServiceOf[j]] = Older(age[ServiceOf[j]], TTL) /\ slept'[j] = slept[j] + 1
      BY <1>5, <3>1 DEF Tick
    <3>3. age[ServiceOf[j]] \in 0..TTL /\ slept[j] \in 0..Late
      BY <3>1
    <3> QED
      BY <3>2, <3>3, Aging
  <2>2. ~redisUp => since' = since + 1
    BY <1>5 DEF Tick, Clocks, Older
  <2>3. \A j \in alive : missed[j] /\ redisUp => since' = since + 1
    <3>1. \A j \in alive : missed[j] /\ redisUp => since < SinceMax
      BY <1>1 DEF MissedBeforeBack, Tolerable
    <3> QED
      BY <1>5, <3>1 DEF Tick, Older
  <2>4. UNCHANGED <<redisUp, alive, listed, lost, missed>>
    BY <1>5 DEF Tick
  <2>5. since \in Nat /\ \A j \in alive : age'[ServiceOf[j]] \in Nat
    <3>1. \A n \in Services : age'[n] = Older(age[n], TTL) /\ age[n] \in 0..TTL
      BY <1>5 DEF Tick
    <3>2. \A n \in Services : age'[n] \in 0..TTL
      BY <3>1, Aging
    <3> QED
      BY <1>1, <3>2
  <2> QED
    BY <1>1, <2>1, <2>2, <2>3, <2>4, <2>5
<1>6. CASE RedisDown
  <2>1. \A j \in alive : ~missed[j]
    BY <1>1, <1>6 DEF RedisDown, MissedBeforeBack, Tolerable
  <2> QED
    BY <1>1, <1>6, <2>1 DEF RedisDown
<1>7. CASE RedisBack
  BY <1>1, <1>7 DEF RedisBack, Clocks
<1>8. ASSUME NEW n \in Services, LoseKey(n) PROVE AgeBound'
  BY <1>1, <1>8 DEF LoseKey
<1>9. CASE UNCHANGED vars
  BY <1>1, <1>9 DEF vars
<1> QED
  BY <1>2, <1>3, <1>4, <1>5, <1>6, <1>7, <1>8, <1>9 DEF Next, Beats

\* The key of a service is there for as long as a process of it that registered lives,
\* whichever process of that name wrote it, provided every outage is shorter than what
\* the TTL leaves beyond two heartbeats, outages leave each process time to beat in
\* between, and Redis does not drop the key.
THEOREM RegisteredStayListed == Spec => []LiveStaysListed
<1>1. CASE Tolerable
  <2>1. Init => ListedInv
    BY TypeInit, ListedInit DEF ListedInv
  <2>2. ListedInv /\ [Next]_vars => ListedInv'
    BY <1>1, TypeStep, ClocksStep, AgeStep DEF ListedInv
  <2>3. ListedInv => LiveStaysListed
    BY KeyPresent DEF LiveStaysListed
  <2> QED
    BY <2>1, <2>2, <2>3, PTL DEF Spec
<1>2. CASE ~Tolerable
  <2>1. LiveStaysListed
    BY <1>2 DEF LiveStaysListed
  <2> QED
    BY <1>2, <2>1, PTL DEF LiveStaysListed
<1> QED
  BY <1>1, <1>2

--------------------------------------------------------------------------------
\* A dead service leaves the registry.

ExpiryInv == TypeOK /\ Clocks /\ LastKeeper

LEMMA KeeperStep == ExpiryInv /\ [Next]_vars => Clocks' /\ LastKeeper'
<1> SUFFICES ASSUME ExpiryInv, [Next]_vars PROVE Clocks' /\ LastKeeper'
  OBVIOUS
<1>1. ServiceOf \in [Inst -> Services] /\ alive \subseteq Inst
  BY RegistryAssumption DEF ExpiryInv, TypeOK
<1> USE Bounds DEF ExpiryInv, TypeOK, Clocks, LastKeeper
<1>2. ASSUME NEW i \in Inst, Start(i) PROVE Clocks' /\ LastKeeper'
  <2>1. Clocks'
    BY <1>2 DEF Start
  <2>2. /\ deadFor'[i] = 0
        /\ \A j \in Inst : deadFor'[j] <= deadFor[j] /\ deadFor'[j] \in Nat
    BY <1>2 DEF Start
  <2>3. ASSUME NEW n \in Services, key'[n] # None
        PROVE  \E j \in Inst : ServiceOf[j] = n /\ deadFor'[j] <= age'[n]
    <3>1. CASE redisUp /\ n = ServiceOf[i]
      BY <1>2, <2>2, <3>1 DEF Start
    <3>2. CASE ~(redisUp /\ n = ServiceOf[i])
      <4>1. key'[n] = key[n] /\ age'[n] = age[n] /\ age[n] \in Nat
        BY <1>2, <3>2 DEF Start
      <4>2. PICK j \in Inst : ServiceOf[j] = n /\ deadFor[j] <= age[n]
        BY <2>3, <4>1
      <4> QED
        BY <2>2, <4>1, <4>2
    <3> QED
      BY <3>1, <3>2
  <2> QED
    BY <2>1, <2>3
<1>3. ASSUME NEW i \in Inst, Die(i) PROVE Clocks' /\ LastKeeper'
  BY <1>3 DEF Die
<1>4. ASSUME NEW i \in Inst, Beat(i) PROVE Clocks' /\ LastKeeper'
  <2>1. Clocks'
    BY <1>4 DEF Beat
  <2>2. ASSUME NEW n \in Services, key'[n] # None
        PROVE  \E j \in Inst : ServiceOf[j] = n /\ deadFor'[j] <= age'[n]
    <3>1. CASE n = ServiceOf[i] /\ age'[n] = 0
      BY <1>4, <3>1 DEF Beat
    <3>2. CASE age'[n] = age[n]
      BY <1>4, <2>2, <3>2 DEF Beat
    <3> QED
      BY <1>4, <3>1, <3>2 DEF Beat
  <2> QED
    BY <2>1, <2>2
<1>5. CASE Tick
  <2>1. Clocks'
    BY <1>5 DEF Tick, Older
  <2>2. ASSUME NEW n \in Services, key'[n] # None
        PROVE  \E j \in Inst : ServiceOf[j] = n /\ deadFor'[j] <= age'[n]
    <3>1. key[n] # None /\ age'[n] = age[n] + 1 /\ age[n] \in 0..TTL
      <4>1. age'[n] # TTL /\ key[n] # None
        BY <1>5, <2>2 DEF Tick
      <4>2. age'[n] = Older(age[n], TTL) /\ age[n] \in 0..TTL
        BY <1>5 DEF Tick
      <4> QED
        BY <4>1, <4>2, Aging
    <3>2. PICK j \in Inst : ServiceOf[j] = n /\ deadFor[j] <= age[n]
      BY <3>1
    <3>3. deadFor'[j] <= deadFor[j] + 1 /\ deadFor[j] \in 0..TTL
      <4>1. deadFor[j] \in 0..TTL
        BY <3>2
      <4>2. deadFor'[j] = 0 \/ deadFor'[j] = Older(deadFor[j], TTL)
        BY <1>5 DEF Tick
      <4>3. Older(deadFor[j], TTL) <= deadFor[j] + 1
        BY <4>1, Aging
      <4> QED
        BY <4>1, <4>2, <4>3
    <3>4. deadFor'[j] \in Nat
      BY <1>5, <3>3, Aging DEF Tick
    <3> QED
      BY <3>1, <3>2, <3>3, <3>4
  <2> QED
    BY <2>1, <2>2
<1>6. CASE RedisDown
  BY <1>6 DEF RedisDown
<1>7. CASE RedisBack
  BY <1>7 DEF RedisBack
<1>8. ASSUME NEW n \in Services, LoseKey(n) PROVE Clocks' /\ LastKeeper'
  BY <1>8 DEF LoseKey
<1>9. CASE UNCHANGED vars
  BY <1>9 DEF vars
<1> QED
  BY <1>2, <1>3, <1>4, <1>5, <1>6, <1>7, <1>8, <1>9 DEF Next, Beats

\* A service whose processes have all been dead for TTL is no longer in the
\* registry, whatever Redis did in the meantime.
THEOREM DeadServicesLeave == Spec => []DeadServiceExpires
<1>1. Init => ExpiryInv
  BY TypeInit, Bounds DEF Init, ExpiryInv, Clocks, LastKeeper
<1>2. ExpiryInv /\ [Next]_vars => ExpiryInv'
  BY TypeStep, KeeperStep DEF ExpiryInv
<1>3. ExpiryInv => DeadServiceExpires
  <2> SUFFICES ASSUME ExpiryInv, NEW n \in Services, Gone(n), key[n] # None PROVE FALSE
    BY DEF DeadServiceExpires
  <2>1. PICK i \in Inst : ServiceOf[i] = n /\ deadFor[i] <= age[n]
    BY DEF ExpiryInv, LastKeeper
  <2>2. age[n] \in 0..TTL /\ age[n] # TTL /\ deadFor[i] = TTL
    BY <2>1 DEF ExpiryInv, TypeOK, Gone
  <2> QED
    BY <2>1, <2>2, Bounds
<1> QED
  BY <1>1, <1>2, <1>3, PTL DEF Spec
================================================================================
