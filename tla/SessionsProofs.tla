----------------------------- MODULE SessionsProofs -----------------------------
(***************************************************************************)
(* Theorems about Sessions, for any browsers, requests and life of a       *)
(* session.                                                                *)
(***************************************************************************)
EXTENDS Sessions, TLAPS

\* A session on record, in the snapshot or being written back was created; a request
\* that works with a token has one; only the fallback removes a session that is over.
Origins ==
    /\ stored \in created \cup {None} /\ saved \in created \cup {None}
    /\ \A r \in Requests :
        /\ pc[r] \in {"create", "store", "welcome", "read", "write"} => token[r] \in Tokens
        /\ pc[r] = "write" => token[r] \in created
        /\ pc[r] \in {"store", "pop"} => ~REDIS_OK
        /\ pc[r] = "write" => REDIS_OK

\* A session that was kept since it was last accepted, and has life left, has the key,
\* and the key has exactly the life that it has not used up since then; a key of any
\* other session, and one in the snapshot, has no more.
LifeCoversUse ==
    REDIS_OK => /\ \A t \in Tokens : fate[t] = "kept" /\ Live(t) => stored = t
                /\ stored # None => /\ life + age[stored] <= SESSION_TTL
                                    /\ fate[stored] = "kept"
                                          => life + age[stored] = SESSION_TTL
                /\ saved # None => savedLife + age[saved] <= SESSION_TTL

SessionsInv == TypeOK /\ Origins /\ LifeCoversUse
--------------------------------------------------------------------------------
LEMMA Bounds == /\ MaxLogins \in Nat /\ SESSION_TTL \in Nat /\ SESSION_TTL > 0
                /\ None = 0 /\ Tokens = 1..MaxLogins
                /\ \A r \in Requests : Owner[r] \in Browsers
  BY SessionAssumption DEF None, Tokens

\* What LifeCoversUse says of the key there is.
LEMMA KeyFits ==
    ASSUME SessionsInv, REDIS_OK, stored # None
    PROVE  /\ stored \in created /\ stored \in Tokens /\ life \in Nat /\ life > 0
           /\ age[stored] \in Nat /\ life + age[stored] <= SESSION_TTL
           /\ fate[stored] = "kept" => life + age[stored] = SESSION_TTL
<1>1. /\ life + age[stored] <= SESSION_TTL
      /\ fate[stored] = "kept" => life + age[stored] = SESSION_TTL
  BY DEF SessionsInv, LifeCoversUse
<1>2. stored \in created
  BY DEF SessionsInv, Origins
<1>3. stored \in Tokens /\ life \in 0..SESSION_TTL /\ life # 0
  BY <1>2 DEF SessionsInv, TypeOK
<1>4. age[stored] \in 0..SESSION_TTL
  BY <1>3 DEF SessionsInv, TypeOK
<1> QED
  BY <1>1, <1>2, <1>3, <1>4, Bounds

LEMMA SessionsInit == Init => SessionsInv
  BY Bounds DEF Init, SessionsInv, TypeOK, Origins, LifeCoversUse, Live

\* Steps that leave the record and its history alone.
LEMMA Bystander ==
    ASSUME SessionsInv, UNCHANGED <<REDIS_OK, record, snapshot, history>>
    PROVE  /\ LifeCoversUse'
           /\ stored' \in created' \cup {None} /\ saved' \in created' \cup {None}
  BY DEF SessionsInv, LifeCoversUse, Origins, Live, record, snapshot, history

\* A token that is accepted has at least the life of its key in the snapshot.
LEMMA SavedFits ==
    ASSUME SessionsInv, NEW t \in Tokens, age' = [age EXCEPT ![t] = 0], REDIS_OK,
           saved' = saved, savedLife' = savedLife, saved' # None
    PROVE  savedLife' + age'[saved'] <= SESSION_TTL
<1>1. /\ saved \in Tokens /\ savedLife \in 0..SESSION_TTL
      /\ age \in [Tokens -> 0..SESSION_TTL]
      /\ savedLife + age[saved] <= SESSION_TTL
  BY DEF SessionsInv, TypeOK, LifeCoversUse
<1>2. age'[saved] \in {0, age[saved]}
  BY <1>1
<1> QED
  BY <1>1, <1>2, Bounds

\* A session is put on record where there was none.
LEMMA Opened ==
    ASSUME SessionsInv, NEW t \in Tokens, Open(t), REDIS_OK => stored = None,
           UNCHANGED <<REDIS_OK, snapshot>>
    PROVE  /\ LifeCoversUse' /\ stored' \in created' \cup {None}
           /\ stored' \in Tokens /\ life' = SESSION_TTL
           /\ created' \subseteq Tokens /\ created \subseteq created'
           /\ age' \in [Tokens -> 0..SESSION_TTL]
<1>1. /\ stored' = t /\ life' = SESSION_TTL /\ created' = created \cup {t}
      /\ age' = [age EXCEPT ![t] = 0] /\ fate' = fate
      /\ saved' = saved /\ savedLife' = savedLife /\ REDIS_OK' = REDIS_OK
  BY DEF Open, snapshot
<1>2. age \in [Tokens -> 0..SESSION_TTL] /\ created \subseteq Tokens
  BY DEF SessionsInv, TypeOK
<1>3. LifeCoversUse'
  <2>0. life' + age'[stored'] = SESSION_TTL
    BY <1>1, <1>2, Bounds
  <2>a. REDIS_OK /\ saved' # None => savedLife' + age'[saved'] <= SESSION_TTL
    BY <1>1, <1>2, SavedFits
  <2> SUFFICES ASSUME REDIS_OK, NEW s \in Tokens, fate[s] = "kept", Live(s)'
               PROVE  stored' = s
    BY <1>1, <1>2, <2>0, <2>a, Bounds DEF LifeCoversUse
  <2>1. CASE s = t
    BY <1>1, <1>2, <2>1, Bounds
  <2>2. CASE s # t
    <3>1. Live(s)
      BY <1>1, <1>2, <2>2 DEF Live
    <3> QED
      BY <3>1, Bounds DEF SessionsInv, LifeCoversUse
  <2> QED
    BY <2>1, <2>2
<1> QED
  BY <1>1, <1>2, <1>3, Bounds

Fates  == {"kept", "loggedOut", "overwritten", "lost"}
Places == {"idle", "create", "store", "welcome", "read", "write", "pop", "delete", "bye"}

RequestOK(r) ==
    /\ pc[r] \in {"create", "store", "welcome", "read", "write"} => token[r] \in Tokens
    /\ pc[r] = "write" => token[r] \in created
    /\ pc[r] \in {"store", "pop"} => ~REDIS_OK
    /\ pc[r] = "write" => REDIS_OK

\* A step of one request that leaves the record alone.
LEMMA QuietStep ==
    ASSUME SessionsInv, NEW r \in Requests,
           UNCHANGED <<REDIS_OK, record, snapshot, history>>,
           pc' \in [Requests -> Places], token' \in [Requests -> Tokens \cup {None}],
           \A o \in Requests : o # r => pc'[o] = pc[o] /\ token'[o] = token[o],
           RequestOK(r)', issued' \in 0..MaxLogins,
           cookie' \in [Browsers -> Tokens \cup {None}]
    PROVE  SessionsInv'
<1>1. TypeOK'
  BY DEF SessionsInv, TypeOK, record, snapshot, history, Places
<1>2. Origins'
  <2>1. \A o \in Requests : o # r => RequestOK(o)'
    BY DEF SessionsInv, Origins, RequestOK, history
  <2> QED
    BY <2>1, Bystander DEF Origins, RequestOK
<1> QED
  BY <1>1, <1>2, Bystander DEF SessionsInv

\* The steps of requests that touch neither the record nor its history.
LEMMA QuietSteps ==
    ASSUME SessionsInv, NEW r \in Requests,
           \/ PostLogin(r) \/ LookInMemory(r) \/ Welcome(r)
           \/ GetPage(r) \/ ReadRedis(r) \/ GetLogout(r) \/ Bye(r) \/ Fails(r)
    PROVE  SessionsInv'
<1>1. TypeOK /\ Origins /\ RequestOK(r) /\ Owner[r] \in Browsers
  BY Bounds DEF SessionsInv, Origins, RequestOK
<1>2. CASE PostLogin(r)
  <2>1. issued' = issued + 1 /\ issued' \in Tokens /\ issued' \in 0..MaxLogins
    BY <1>1, <1>2, Bounds DEF PostLogin, TypeOK
  <2>2. /\ pc' = [pc EXCEPT ![r] = "create"] /\ token' = [token EXCEPT ![r] = issued']
        /\ UNCHANGED <<REDIS_OK, record, snapshot, cookie, history>>
    BY <1>2 DEF PostLogin, Begins
  <2> QED
    BY <1>1, <2>1, <2>2, QuietStep DEF TypeOK, RequestOK, Places
<1>3. CASE GetPage(r) \/ GetLogout(r)
  <2>1. cookie[Owner[r]] \in Tokens
    BY <1>1, <1>3 DEF GetPage, GetLogout, TypeOK
  <2>2. /\ \E where \in {"read", "delete"} : pc' = [pc EXCEPT ![r] = where]
        /\ token' = [token EXCEPT ![r] = cookie[Owner[r]]]
        /\ UNCHANGED <<REDIS_OK, record, snapshot, issued, cookie, history>>
    BY <1>3 DEF GetPage, GetLogout, Begins
  <2> QED
    BY <1>1, <2>1, <2>2, QuietStep DEF TypeOK, RequestOK, Places
<1>4. CASE LookInMemory(r) \/ ReadRedis(r)
  <2>1. /\ UNCHANGED <<REDIS_OK, record, snapshot, issued, cookie, history>>
        /\ \/ Ends(r)
           \/ Goto(r, "store") /\ pc[r] = "create" /\ ~REDIS_OK
           \/ Goto(r, "write") /\ pc[r] = "read" /\ REDIS_OK /\ stored = token[r]
    BY <1>4 DEF LookInMemory, ReadRedis
  <2>2. CASE Ends(r)
    BY <1>1, <2>1, <2>2, QuietStep DEF TypeOK, RequestOK, Places, Ends
  <2>3. CASE Goto(r, "store") /\ pc[r] = "create" /\ ~REDIS_OK
    BY <1>1, <2>1, <2>3, QuietStep DEF TypeOK, RequestOK, Places, Goto
  <2>4. CASE Goto(r, "write") /\ pc[r] = "read" /\ REDIS_OK /\ stored = token[r]
    <3>1. token[r] \in Tokens /\ token[r] \in created
      BY <1>1, <2>4, Bounds DEF RequestOK, Origins
    <3> QED
      BY <1>1, <2>1, <2>4, <3>1, QuietStep DEF TypeOK, RequestOK, Places, Goto, history
  <2> QED
    BY <2>1, <2>2, <2>3, <2>4
<1>5. CASE Welcome(r) \/ Bye(r) \/ Fails(r)
  <2>1. /\ UNCHANGED <<REDIS_OK, record, snapshot, issued, history>> /\ Ends(r)
        /\ cookie' \in [Browsers -> Tokens \cup {None}]
    BY <1>1, <1>5 DEF Welcome, Bye, Fails, TypeOK
  <2> QED
    BY <1>1, <2>1, QuietStep DEF TypeOK, RequestOK, Places, Ends
<1> QED
  BY <1>2, <1>3, <1>4, <1>5

\* The steps that change the record.
LEMMA LoudStep ==
    ASSUME SessionsInv, NEW r \in Requests,
           UNCHANGED <<REDIS_OK, snapshot, issued, cookie>>,
           pc' \in [Requests -> Places], token' \in [Requests -> Tokens \cup {None}],
           \A o \in Requests : o # r => pc'[o] = pc[o] /\ token'[o] = token[o],
           pc'[r] \in {"idle", "welcome", "bye"}, pc'[r] = "welcome" => token'[r] \in Tokens,
           created \subseteq created', created' \subseteq Tokens,
           stored' \in created' \cup {None}, life' \in 0..SESSION_TTL,
           stored' = None <=> life' = 0,
           fate' \in [Tokens -> Fates],
           age' \in [Tokens -> 0..SESSION_TTL],
           LifeCoversUse'
    PROVE  SessionsInv'
<1>1. TypeOK'
  BY DEF SessionsInv, TypeOK, Places, Fates, snapshot
<1>2. Origins'
  <2>1. \A o \in Requests : o # r => RequestOK(o)'
    BY DEF SessionsInv, Origins, RequestOK
  <2>2. RequestOK(r)'
    BY DEF RequestOK
  <2> QED
    BY <2>1, <2>2 DEF SessionsInv, Origins, RequestOK, snapshot
<1> QED
  BY <1>1, <1>2 DEF SessionsInv

LEMMA Ended ==
    ASSUME SessionsInv, NEW end \in Fates
    PROVE  /\ Meets(end) \in [Tokens -> Fates]
           /\ \A t \in Tokens : Meets(end)[t] = IF t = stored THEN end ELSE fate[t]
  BY DEF SessionsInv, TypeOK, Fates, Meets

\* A validation takes the record for its own token.
LEMMA Written ==
    ASSUME SessionsInv, NEW t \in created, REDIS_OK, UNCHANGED <<REDIS_OK, snapshot, created>>,
           stored' = t, life' = SESSION_TTL, age' = [age EXCEPT ![t] = 0],
           fate' = [Meets("overwritten") EXCEPT ![t] = "kept"]
    PROVE  /\ LifeCoversUse' /\ fate' \in [Tokens -> Fates]
           /\ age' \in [Tokens -> 0..SESSION_TTL]
<1>1. /\ age \in [Tokens -> 0..SESSION_TTL] /\ created \subseteq Tokens
      /\ "overwritten" \in Fates /\ "kept" \in Fates
  BY DEF SessionsInv, TypeOK, Fates
<1>2. /\ t \in Tokens /\ saved' = saved /\ savedLife' = savedLife
      /\ Meets("overwritten") \in [Tokens -> Fates]
  BY <1>1, Ended DEF snapshot
<1>3. LifeCoversUse'
  <2>0. life' + age'[stored'] = SESSION_TTL
    BY <1>1, <1>2, Bounds
  <2>1. saved' # None => savedLife' + age'[saved'] <= SESSION_TTL
    BY <1>2, SavedFits
  <2> SUFFICES ASSUME NEW s \in Tokens, fate'[s] = "kept", Live(s)'
               PROVE  stored' = s
    BY <1>1, <2>0, <2>1, Bounds DEF LifeCoversUse
  <2>2. CASE s # t
    <3>1. Live(s)
      BY <1>1, <2>2 DEF Live
    <3>2. s # stored /\ fate[s] = "kept"
      BY <1>1, <1>2, <2>2, Ended
    <3> QED
      BY <3>1, <3>2 DEF SessionsInv, LifeCoversUse
  <2> QED
    BY <2>2
<1> QED
  BY <1>1, <1>2, <1>3, Bounds

LEMMA OpenSteps ==
    ASSUME SessionsInv, NEW r \in Requests, CreateInRedis(r) \/ StoreInMemory(r)
    PROVE  SessionsInv'
<1>1. TypeOK /\ Origins /\ RequestOK(r)
  BY DEF SessionsInv, Origins, RequestOK
<1>2. UNCHANGED <<REDIS_OK, snapshot, issued, cookie>> /\ token[r] \in Tokens
  BY <1>1 DEF CreateInRedis, StoreInMemory, RequestOK
<1>3. \/ Open(token[r]) /\ Goto(r, "welcome") /\ (REDIS_OK => stored = None)
      \/ Ends(r) /\ UNCHANGED <<record, history>>
  BY DEF CreateInRedis, StoreInMemory
<1>4. CASE Open(token[r]) /\ Goto(r, "welcome") /\ (REDIS_OK => stored = None)
  <2>1. /\ LifeCoversUse' /\ stored' \in created' \cup {None}
        /\ stored' \in Tokens /\ life' = SESSION_TTL
        /\ created' \subseteq Tokens /\ created \subseteq created'
        /\ age' \in [Tokens -> 0..SESSION_TTL]
    BY <1>2, <1>4, Opened
  <2>2. /\ fate' = fate
        /\ pc' = [pc EXCEPT ![r] = "welcome"] /\ token' = token
    BY <1>4 DEF Open, Goto
  <2>3. /\ fate' \in [Tokens -> Fates]
        /\ pc' \in [Requests -> Places] /\ token' \in [Requests -> Tokens \cup {None}]
        /\ pc'[r] = "welcome" /\ token'[r] \in Tokens
        /\ \A o \in Requests : o # r => pc'[o] = pc[o] /\ token'[o] = token[o]
    BY <1>1, <1>2, <2>1, <2>2 DEF TypeOK, Places, Fates
  <2>4. (stored' = None <=> life' = 0) /\ life' \in 0..SESSION_TTL
    BY <2>1, Bounds
  <2> QED
    BY <1>2, <2>1, <2>3, <2>4, LoudStep
<1>5. CASE Ends(r) /\ UNCHANGED <<record, history>>
  BY <1>1, <1>2, <1>5, QuietStep DEF Ends, TypeOK, Places, RequestOK
<1> QED
  BY <1>3, <1>4, <1>5

\* The record is cleared and the session that was there has met its end.
LEMMA Vacated ==
    ASSUME SessionsInv, UNCHANGED <<REDIS_OK, snapshot, created, age>>, stored' = None,
           \/ ~REDIS_OK
           \/ \E end \in Fates \ {"kept"} : fate' = Meets(end)
    PROVE  LifeCoversUse'
<1> SUFFICES ASSUME REDIS_OK, NEW s \in Tokens, fate'[s] = "kept", Live(s)'
             PROVE  FALSE
  BY DEF SessionsInv, LifeCoversUse, snapshot
<1>1. PICK end \in Fates \ {"kept"} : fate' = Meets(end)
  OBVIOUS
<1>2. Live(s) /\ s # stored /\ fate[s] = "kept"
  BY <1>1, Ended DEF Live
<1> QED
  BY <1>2 DEF SessionsInv, LifeCoversUse

LEMMA LoudSteps ==
    ASSUME SessionsInv, NEW r \in Requests,
           WriteRedis(r) \/ ReadMemory(r) \/ Pop(r) \/ Delete(r)
    PROVE  SessionsInv'
<1>1. TypeOK /\ Origins /\ RequestOK(r)
  BY DEF SessionsInv, Origins, RequestOK
<1>2. CASE WriteRedis(r)
  <2>1. /\ UNCHANGED <<REDIS_OK, snapshot, issued, cookie, created>> /\ REDIS_OK
        /\ token[r] \in created /\ stored' = token[r] /\ life' = SESSION_TTL
        /\ fate' = [Meets("overwritten") EXCEPT ![token[r]] = "kept"]
        /\ age' = [age EXCEPT ![token[r]] = 0]
        /\ pc' = [pc EXCEPT ![r] = "idle"] /\ token' = [token EXCEPT ![r] = None]
    BY <1>1, <1>2 DEF WriteRedis, Accepted, Ends, RequestOK
  <2>2. /\ LifeCoversUse' /\ fate' \in [Tokens -> Fates]
        /\ age' \in [Tokens -> 0..SESSION_TTL]
    BY <2>1, Written
  <2>3. /\ pc' \in [Requests -> Places] /\ token' \in [Requests -> Tokens \cup {None}]
        /\ pc'[r] = "idle"
        /\ \A o \in Requests : o # r => pc'[o] = pc[o] /\ token'[o] = token[o]
    BY <1>1, <2>1 DEF TypeOK, Places
  <2>4. /\ created \subseteq created' /\ created' \subseteq Tokens
        /\ stored' \in created' \cup {None} /\ life' \in 0..SESSION_TTL
        /\ (stored' = None <=> life' = 0)
    <3>1. created \subseteq Tokens
      BY <1>1 DEF TypeOK
    <3>2. token[r] # None
      BY <2>1, <3>1, Bounds
    <3> QED
      BY <2>1, <3>1, <3>2, Bounds
  <2> QED
    BY <2>1, <2>2, <2>3, <2>4, LoudStep
<1>3. CASE ReadMemory(r)
  <2>1. /\ UNCHANGED <<REDIS_OK, record, snapshot, issued, cookie, created, fate>>
        /\ ~REDIS_OK /\ pc[r] = "read" /\ token[r] \in Tokens
    BY <1>1, <1>3 DEF ReadMemory, RequestOK
  <2>2. /\ \/ pc' = [pc EXCEPT ![r] = "pop"] /\ token' = token
           \/ pc' = [pc EXCEPT ![r] = "idle"] /\ token' = [token EXCEPT ![r] = None]
        /\ age' = age \/ age' = [age EXCEPT ![token[r]] = 0]
    BY <1>3 DEF ReadMemory, Goto, Ends, Accepted
  <2>3. /\ pc' \in [Requests -> Places] /\ token' \in [Requests -> Tokens \cup {None}]
        /\ pc'[r] \in {"idle", "pop"}
        /\ \A o \in Requests : o # r => pc'[o] = pc[o] /\ token'[o] = token[o]
    BY <1>1, <2>2 DEF TypeOK, Places
  <2>4. age' \in [Tokens -> 0..SESSION_TTL]
    <3>1. age \in [Tokens -> 0..SESSION_TTL] /\ 0 \in 0..SESSION_TTL
      BY <1>1, Bounds DEF TypeOK
    <3> QED
      BY <2>2, <3>1
  <2>5. TypeOK'
    BY <1>1, <2>1, <2>3, <2>4 DEF TypeOK, record, snapshot, Places
  <2>6. Origins'
    <3>1. \A o \in Requests : o # r => RequestOK(o)'
      BY <1>1, <2>1, <2>3 DEF Origins, RequestOK
    <3>2. RequestOK(r)'
      BY <2>1, <2>3 DEF RequestOK
    <3> QED
      BY <1>1, <2>1, <3>1, <3>2 DEF Origins, RequestOK, record, snapshot
  <2> QED
    BY <2>1, <2>5, <2>6 DEF SessionsInv, LifeCoversUse
<1>4. CASE Pop(r) \/ Delete(r)
  <2>1. /\ UNCHANGED <<REDIS_OK, snapshot, issued, cookie, created, age>>
        /\ stored' = None /\ life' = 0
        /\ \/ fate' = fate /\ ~REDIS_OK
           \/ fate' = Meets("loggedOut")
        /\ \/ pc' = [pc EXCEPT ![r] = "idle"] /\ token' = [token EXCEPT ![r] = None]
           \/ pc' = [pc EXCEPT ![r] = "bye"] /\ token' = token
    BY <1>1, <1>4 DEF Pop, Delete, Goto, Ends, RequestOK, history
  <2>2. /\ pc' \in [Requests -> Places] /\ token' \in [Requests -> Tokens \cup {None}]
        /\ pc'[r] \in {"idle", "bye"}
        /\ \A o \in Requests : o # r => pc'[o] = pc[o] /\ token'[o] = token[o]
    BY <1>1, <2>1 DEF TypeOK, Places
  <2>3. /\ created \subseteq created' /\ created' \subseteq Tokens
        /\ stored' \in created' \cup {None} /\ life' \in 0..SESSION_TTL
        /\ (stored' = None <=> life' = 0)
        /\ fate' \in [Tokens -> Fates] /\ age' \in [Tokens -> 0..SESSION_TTL]
    <3>1. /\ created \subseteq Tokens /\ age \in [Tokens -> 0..SESSION_TTL]
          /\ fate \in [Tokens -> Fates] /\ "loggedOut" \in Fates
      BY <1>1 DEF TypeOK, Fates
    <3>2. fate' \in [Tokens -> Fates]
      BY <2>1, <3>1, Ended
    <3> QED
      BY <2>1, <3>1, <3>2, Bounds
  <2>4. LifeCoversUse'
    BY <2>1, Vacated, Zenon DEF Fates
  <2> QED
    BY <2>1, <2>2, <2>3, <2>4, LoudStep
<1> QED
  BY <1>2, <1>3, <1>4

\* Time: the life that is lost the age gains.
LEMMA TickStep ==
    ASSUME SessionsInv, Tick
    PROVE  SessionsInv'
<1>1. TypeOK /\ Origins
  BY DEF SessionsInv
<1>2. /\ life' = Shorter(life) /\ savedLife' = Shorter(savedLife)
      /\ stored' = IF REDIS_OK /\ life' = 0 THEN None ELSE stored
      /\ saved' = IF savedLife' = 0 THEN None ELSE saved
      /\ age' = [t \in Tokens |-> IF t \in created /\ age[t] < SESSION_TTL THEN age[t] + 1
                                 ELSE age[t]]
      /\ UNCHANGED <<REDIS_OK, issued, cookie, pc, token, created, fate>>
  BY DEF Tick, request
<1>3. ASSUME NEW l \in 0..SESSION_TTL
      PROVE  /\ Shorter(l) \in 0..SESSION_TTL
             /\ Shorter(l) = IF l = 0 THEN 0 ELSE l - 1
  BY Bounds DEF Shorter
<1>4. /\ life \in 0..SESSION_TTL /\ savedLife \in 0..SESSION_TTL
      /\ life' \in 0..SESSION_TTL /\ savedLife' \in 0..SESSION_TTL
      /\ life' = IF life = 0 THEN 0 ELSE life - 1
      /\ savedLife' = IF savedLife = 0 THEN 0 ELSE savedLife - 1
  BY <1>1, <1>2, <1>3 DEF TypeOK
<1>5. /\ age' \in [Tokens -> 0..SESSION_TTL]
      /\ \A t \in created : age'[t] = IF age[t] < SESSION_TTL THEN age[t] + 1 ELSE age[t]
  <2>1. created \subseteq Tokens /\ \A t \in Tokens : age[t] \in 0..SESSION_TTL
    BY <1>1 DEF TypeOK
  <2> QED
    BY <1>2, <2>1, Bounds
<1>6. /\ stored' \in created' \cup {None} /\ saved' \in created' \cup {None}
      /\ (stored' = None => life' = 0) /\ (REDIS_OK /\ life' = 0 => stored' = None)
      /\ (saved' = None <=> savedLife' = 0)
  BY <1>1, <1>2, <1>4, Bounds DEF TypeOK, Origins
<1>7. TypeOK'
  BY <1>1, <1>2, <1>4, <1>5, <1>6, Bounds DEF TypeOK
<1>8. Origins'
  BY <1>1, <1>2, <1>6 DEF Origins
<1>9. LifeCoversUse'
  <2> SUFFICES ASSUME REDIS_OK
               PROVE  /\ \A t \in Tokens : fate[t] = "kept" /\ Live(t)' => stored' = t
                      /\ stored' # None =>
                           /\ life' + age'[stored'] <= SESSION_TTL
                           /\ fate[stored'] = "kept" => life' + age'[stored'] = SESSION_TTL
                      /\ saved' # None => savedLife' + age'[saved'] <= SESSION_TTL
    BY <1>2 DEF LifeCoversUse
  <2>1. ASSUME stored' # None
        PROVE  /\ life' + age'[stored'] <= SESSION_TTL
               /\ fate[stored'] = "kept" => life' + age'[stored'] = SESSION_TTL
    <3>1. /\ stored' = stored /\ stored \in created /\ stored \in Tokens
          /\ life' = life - 1 /\ life + age[stored] <= SESSION_TTL
          /\ fate[stored] = "kept" => life + age[stored] = SESSION_TTL
      BY <1>2, <1>4, <2>1, KeyFits
    <3>2. /\ age[stored] \in Nat /\ life \in Nat /\ life > 0 /\ age[stored] < SESSION_TTL
      BY <1>1, <1>2, <1>4, <2>1, <3>1, Bounds DEF TypeOK
    <3>3. age'[stored] = age[stored] + 1
      BY <1>5, <3>1, <3>2
    <3> QED
      BY <3>1, <3>2, <3>3, Bounds
  <2>2. ASSUME saved' # None
        PROVE  savedLife' + age'[saved'] <= SESSION_TTL
    <3>1. /\ saved' = saved /\ saved \in created /\ saved \in Tokens
          /\ savedLife' = savedLife - 1 /\ savedLife + age[saved] <= SESSION_TTL
      BY <1>1, <1>2, <1>4, <2>2 DEF SessionsInv, LifeCoversUse, TypeOK, Origins
    <3>2. age[saved] \in Nat /\ age'[saved] \in {age[saved], age[saved] + 1}
      BY <1>1, <1>5, <3>1 DEF TypeOK
    <3> QED
      BY <1>4, <3>1, <3>2, Bounds
  <2>3. ASSUME NEW t \in Tokens, fate[t] = "kept", Live(t)'
        PROVE  stored' = t
    <3>1. age[t] \in 0..SESSION_TTL /\ t \in created
      BY <1>1, <1>2, <2>3 DEF TypeOK, Live
    <3>2. age'[t] < SESSION_TTL /\ age[t] < SESSION_TTL /\ age'[t] = age[t] + 1
      BY <1>5, <2>3, <3>1, Bounds DEF Live
    <3>3. stored = t /\ life + age[t] = SESSION_TTL
      <4>1. Live(t)
        BY <3>1, <3>2 DEF Live
      <4>2. stored = t
        BY <2>3, <4>1 DEF SessionsInv, LifeCoversUse
      <4> QED
        BY <2>3, <4>2, KeyFits, Bounds
    <3>4. life' # 0
      BY <1>4, <3>1, <3>2, <3>3, Bounds
    <3> QED
      BY <1>2, <3>3, <3>4
  <2> QED
    BY <2>1, <2>2, <2>3
<1> QED
  BY <1>7, <1>8, <1>9 DEF SessionsInv

LEMMA SaveStep ==
    ASSUME SessionsInv, Save
    PROVE  SessionsInv'
<1>1. /\ REDIS_OK /\ saved' = stored /\ savedLife' = life
      /\ UNCHANGED <<REDIS_OK, stored, life, issued, cookie, pc, token, created, fate, age>>
  BY DEF Save, record, request, history
<1>2. TypeOK'
  BY <1>1 DEF SessionsInv, TypeOK
<1>3. Origins'
  BY <1>1 DEF SessionsInv, Origins
<1>4. LifeCoversUse'
  BY <1>1 DEF SessionsInv, LifeCoversUse, Live
<1> QED
  BY <1>2, <1>3, <1>4 DEF SessionsInv

\* The key goes, or what comes back for it is no session that anybody may count on.
LEMMA LoseStep ==
    ASSUME SessionsInv, LoseKey
    PROVE  SessionsInv'
<1>1. /\ REDIS_OK /\ fate' = Meets("lost") /\ "lost" \in Fates
      /\ \/ stored' = None /\ life' = 0
         \/ stored' = saved /\ life' = savedLife
      /\ UNCHANGED <<REDIS_OK, saved, savedLife, issued, cookie, pc, token, created, age>>
  BY DEF LoseKey, request, snapshot, Fates
<1>2. TypeOK'
  <2>1. fate' \in [Tokens -> Fates]
    BY <1>1, Ended
  <2> QED
    BY <1>1, <2>1, Bounds DEF SessionsInv, TypeOK, Fates
<1>3. Origins'
  BY <1>1 DEF SessionsInv, Origins
<1>4. LifeCoversUse'
  <2>1. ASSUME NEW t \in Tokens, fate'[t] = "kept"
        PROVE  fate[t] = "kept" /\ t # stored
    BY <1>1, <2>1, Ended
  <2>2. ASSUME NEW t \in Tokens, fate'[t] = "kept"
        PROVE  ~Live(t)
    BY <1>1, <2>1, <2>2 DEF SessionsInv, LifeCoversUse
  <2>3. ASSUME stored' # None
        PROVE  /\ life' + age'[stored'] <= SESSION_TTL
               /\ fate'[stored'] # "kept"
    <3>1. /\ stored' = saved /\ life' = savedLife /\ saved \in Tokens /\ saved \in created
          /\ savedLife \in Nat /\ savedLife > 0 /\ age[saved] \in Nat
          /\ savedLife + age[saved] <= SESSION_TTL
      BY <1>1, <2>3, Bounds DEF SessionsInv, LifeCoversUse, TypeOK, Origins
    <3>2. Live(saved)
      BY <3>1, Bounds DEF Live
    <3> QED
      BY <1>1, <2>2, <3>1, <3>2
  <2>4. saved' # None => savedLife' + age'[saved'] <= SESSION_TTL
    BY <1>1 DEF SessionsInv, LifeCoversUse
  <2>5. \A t \in Tokens : Live(t)' <=> Live(t)
    BY <1>1 DEF Live
  <2> QED
    BY <2>2, <2>3, <2>4, <2>5 DEF LifeCoversUse
<1> QED
  BY <1>2, <1>3, <1>4 DEF SessionsInv

LEMMA SessionsStep == SessionsInv /\ [Next]_vars => SessionsInv'
<1> SUFFICES ASSUME SessionsInv, [Next]_vars PROVE SessionsInv'
  OBVIOUS
<1>1. ASSUME NEW r \in Requests, PostLogin(r) \/ GetPage(r) \/ GetLogout(r) \/ Fails(r)
      PROVE  SessionsInv'
  BY <1>1, QuietSteps
<1>2. ASSUME NEW r \in Requests, Serve(r)
      PROVE  SessionsInv'
  BY <1>2, QuietSteps, OpenSteps, LoudSteps DEF Serve
<1>3. ASSUME NEW b \in Browsers, Close(b)
      PROVE  SessionsInv'
  <2>1. /\ cookie' = [cookie EXCEPT ![b] = None]
        /\ UNCHANGED <<REDIS_OK, record, snapshot, issued, pc, token, history>>
    BY <1>3 DEF Close, request
  <2>2. TypeOK'
    BY <2>1 DEF SessionsInv, TypeOK, record, snapshot, history
  <2>3. Origins'
    BY <2>1 DEF SessionsInv, Origins, record, snapshot, history
  <2> QED
    BY <2>1, <2>2, <2>3, Bystander DEF SessionsInv
<1>4. CASE Tick \/ Save \/ LoseKey
  BY <1>4, TickStep, SaveStep, LoseStep
<1>5. CASE UNCHANGED vars
  BY <1>5 DEF vars, record, snapshot, request, history, SessionsInv, TypeOK, Origins, LifeCoversUse,
               Live
<1> QED
  BY <1>1, <1>2, <1>3, <1>4, <1>5 DEF Next

LEMMA SessionsInvariant == Spec => []SessionsInv
  BY SessionsInit, SessionsStep, PTL DEF Spec
--------------------------------------------------------------------------------
\* Every variable keeps its type, in every reachable state.
THEOREM TypeCorrect == Spec => []TypeOK
<1>1. SessionsInv => TypeOK
  BY DEF SessionsInv
<1> QED
  BY <1>1, SessionsInvariant, PTL

\* create_session and validate_session: a session in use stays on record and keeps the
\* other logins out, for any number of concurrent requests, unless since its last use it
\* was logged out, an earlier one was written back over it, or Redis lost it; one that
\* nobody uses for its life is gone, even if it came back one of these ways.
THEOREM LiveSessionsAreKept == Spec => []LiveSessionIsKept
<1>1. SessionsInv => LiveSessionIsKept
  <2> SUFFICES ASSUME SessionsInv, REDIS_OK, stored # None PROVE Live(stored)
    BY DEF SessionsInv, LifeCoversUse, LiveSessionIsKept
  <2>1. /\ stored \in created /\ life > 0 /\ life \in Nat /\ age[stored] \in Nat
        /\ life + age[stored] <= SESSION_TTL
    BY KeyFits
  <2> QED
    BY <2>1, Bounds DEF Live
<1> QED
  BY <1>1, SessionsInvariant, PTL
================================================================================
