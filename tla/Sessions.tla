-------------------------------- MODULE Sessions --------------------------------
(***************************************************************************)
(* The dashboard's login sessions.  There is one user name, and so one     *)
(* session on record: a Redis key with a sliding life or, when Redis was   *)
(* missing at start, an entry in the memory of the dashboard.  Requests of *)
(* several browsers are served concurrently, one per thread, and every     *)
(* Redis command is a step of its own.  Redis may evict the key, and       *)
(* after a crash it comes back with what its last snapshot holds.          *)
(*                                                                         *)
(* Tokens are numbered in the order of the logins that made them.          *)
(***************************************************************************)
EXTENDS Naturals

CONSTANTS
    Browsers,
    Requests,     \* requests that may be under way at the same time
    Owner,        \* the browser of each
    SESSION_TTL,  \* SESSION_TIMEOUT_MINUTES, in units of the clock
    MaxLogins     \* bound: POSTs of /login with the right password

ASSUME SessionAssumption ==
    /\ Owner \in [Requests -> Browsers]
    /\ SESSION_TTL \in Nat \ {0}
    /\ MaxLogins \in Nat

VARIABLES
    REDIS_OK,    \* the module flag, fixed when the process starts
    stored,      \* the token of the session on record, or None
    life,        \* what is left of its life
    saved,       \* the token in the last snapshot of Redis, or None
    savedLife,   \* what is left of the life it has there
    issued,      \* tokens made so far
    cookie,      \* the token in each browser's session cookie, or None
    pc, token,   \* each request: where it is, and the token it works with
    created,     \* history: tokens whose session was put on record
    fate,        \* history: what ended its session, since it was last accepted
    age          \* history: time since each token was last accepted

record   == <<stored, life>>
snapshot == <<saved, savedLife>>
request  == <<pc, token>>
history  == <<created, fate, age>>
vars     == <<REDIS_OK, record, snapshot, issued, cookie, request, history>>

None   == 0
Tokens == 1..MaxLogins

Init ==
    /\ REDIS_OK \in BOOLEAN
    /\ stored = None /\ life = 0
    /\ saved = None /\ savedLife = 0
    /\ issued = 0
    /\ cookie = [b \in Browsers |-> None]
    /\ pc = [r \in Requests |-> "idle"]
    /\ token = [r \in Requests |-> None]
    /\ created = {}
    /\ fate = [t \in Tokens |-> "kept"]
    /\ age = [t \in Tokens |-> 0]

Goto(r, where) == pc' = [pc EXCEPT ![r] = where] /\ UNCHANGED token

Ends(r) == pc' = [pc EXCEPT ![r] = "idle"] /\ token' = [token EXCEPT ![r] = None]

Begins(r, where, t) ==
    /\ pc[r] = "idle"
    /\ pc' = [pc EXCEPT ![r] = where]
    /\ token' = [token EXCEPT ![r] = t]

\* The session on record, if there is one, meets this end.
Meets(end) == [t \in Tokens |-> IF t = stored THEN end ELSE fate[t]]
--------------------------------------------------------------------------------
\* login and create_session.

PostLogin(r) ==
    /\ issued < MaxLogins
    /\ issued' = issued + 1
    /\ Begins(r, "create", issued')
    /\ UNCHANGED <<REDIS_OK, record, snapshot, cookie, history>>

Open(t) ==
    /\ stored' = t /\ life' = SESSION_TTL
    /\ created' = created \cup {t}
    /\ age' = [age EXCEPT ![t] = 0]
    /\ UNCHANGED fate

\* Variant: the key is looked at and set by two commands.
CreateInTwoSteps(r) ==
    /\ REDIS_OK
    /\ \/ /\ pc[r] = "create"
          /\ IF stored = None THEN Goto(r, "store") ELSE Ends(r)
          /\ UNCHANGED <<record, history>>
       \/ /\ pc[r] = "store"
          /\ Open(token[r])
          /\ Goto(r, "welcome")
    /\ UNCHANGED <<REDIS_OK, snapshot, issued, cookie>>

\* SET NX EX: the login is refused while there is a session on record.
CreateInRedis(r) ==
    /\ REDIS_OK
    /\ pc[r] = "create"
    /\ IF stored = None THEN Open(token[r]) /\ Goto(r, "welcome")
                        ELSE Ends(r) /\ UNCHANGED <<record, history>>
    /\ UNCHANGED <<REDIS_OK, snapshot, issued, cookie>>

\* In memory an entry counts whether or not its time is over.
LookInMemory(r) ==
    /\ ~REDIS_OK
    /\ pc[r] = "create"
    /\ IF stored = None THEN Goto(r, "store") ELSE Ends(r)
    /\ UNCHANGED <<REDIS_OK, record, snapshot, issued, cookie, history>>

StoreInMemory(r) ==
    /\ ~REDIS_OK
    /\ pc[r] = "store"
    /\ Open(token[r])
    /\ Goto(r, "welcome")
    /\ UNCHANGED <<REDIS_OK, snapshot, issued, cookie>>

\* The answer with the new cookie reaches the browser.
Welcome(r) ==
    /\ pc[r] = "welcome"
    /\ cookie' = [cookie EXCEPT ![Owner[r]] = token[r]]
    /\ Ends(r)
    /\ UNCHANGED <<REDIS_OK, record, snapshot, issued, history>>
--------------------------------------------------------------------------------
\* is_logged_in and validate_session, for any page behind the login.

GetPage(r) ==
    /\ cookie[Owner[r]] # None
    /\ Begins(r, "read", cookie[Owner[r]])
    /\ UNCHANGED <<REDIS_OK, record, snapshot, issued, cookie, history>>

ReadRedis(r) ==
    /\ REDIS_OK
    /\ pc[r] = "read"
    /\ IF stored = token[r] THEN Goto(r, "write") ELSE Ends(r)
    /\ UNCHANGED <<REDIS_OK, record, snapshot, issued, cookie, history>>

Accepted(r) == age' = [age EXCEPT ![token[r]] = 0]

\* Variant: SET without EX, which takes the life off the key.
WriteForEver(r) ==
    /\ REDIS_OK
    /\ pc[r] = "write"
    /\ stored' = token[r] /\ life' = SESSION_TTL + 1
    /\ fate' = [Meets("overwritten") EXCEPT ![token[r]] = "kept"]
    /\ Accepted(r)
    /\ Ends(r)
    /\ UNCHANGED <<REDIS_OK, snapshot, issued, cookie, created>>

\* SET EX, whatever became of the key since it was read.
WriteRedis(r) ==
    /\ REDIS_OK
    /\ pc[r] = "write"
    /\ stored' = token[r] /\ life' = SESSION_TTL
    /\ fate' = [Meets("overwritten") EXCEPT ![token[r]] = "kept"]
    /\ Accepted(r)
    /\ Ends(r)
    /\ UNCHANGED <<REDIS_OK, snapshot, issued, cookie, created>>

\* Variant: an entry whose time is over is refused but left in place.
ReadMemoryLeaving(r) ==
    /\ ~REDIS_OK
    /\ pc[r] = "read"
    /\ Ends(r)
    /\ UNCHANGED <<REDIS_OK, record, snapshot, issued, cookie, history>>

\* In memory a request does not lengthen the session; it removes one that is over.
ReadMemory(r) ==
    /\ ~REDIS_OK
    /\ pc[r] = "read"
    /\ IF stored = None \/ life = 0 THEN Goto(r, "pop") /\ UNCHANGED age
       ELSE /\ Ends(r)
            /\ IF stored = token[r] THEN Accepted(r) ELSE UNCHANGED age
    /\ UNCHANGED <<REDIS_OK, record, snapshot, issued, cookie, created, fate>>

Pop(r) ==
    /\ pc[r] = "pop"
    /\ stored' = None /\ life' = 0
    /\ Ends(r)
    /\ UNCHANGED <<REDIS_OK, snapshot, issued, cookie, history>>
--------------------------------------------------------------------------------
\* logout and destroy_session.

GetLogout(r) ==
    /\ cookie[Owner[r]] # None
    /\ Begins(r, "delete", cookie[Owner[r]])
    /\ UNCHANGED <<REDIS_OK, record, snapshot, issued, cookie, history>>

\* The record of the user name goes, whoever's session it is.
Delete(r) ==
    /\ pc[r] = "delete"
    /\ stored' = None /\ life' = 0
    /\ fate' = Meets("loggedOut")
    /\ Goto(r, "bye")
    /\ UNCHANGED <<REDIS_OK, snapshot, issued, cookie, created, age>>

Bye(r) ==
    /\ pc[r] = "bye"
    /\ cookie' = [cookie EXCEPT ![Owner[r]] = None]
    /\ Ends(r)
    /\ UNCHANGED <<REDIS_OK, record, snapshot, issued, history>>
--------------------------------------------------------------------------------
Serve(r) ==
    \/ CreateInRedis(r) \/ LookInMemory(r) \/ StoreInMemory(r) \/ Welcome(r)
    \/ ReadRedis(r) \/ WriteRedis(r) \/ ReadMemory(r) \/ Pop(r)
    \/ Delete(r) \/ Bye(r)

\* A Redis command raises, or the answer does not reach the browser.
Fails(r) ==
    /\ pc[r] \in {"welcome", "bye"} \/ (REDIS_OK /\ pc[r] # "idle")
    /\ Ends(r)
    /\ UNCHANGED <<REDIS_OK, record, snapshot, issued, cookie, history>>

\* The cookie lasts as long as the browser is open.
Close(b) ==
    /\ cookie[b] # None
    /\ cookie' = [cookie EXCEPT ![b] = None]
    /\ UNCHANGED <<REDIS_OK, record, snapshot, issued, request, history>>

Shorter(l) == IF l \in 1..SESSION_TTL THEN l - 1 ELSE l

\* Redis removes the key when its life is over, memory does not.  The key in the
\* snapshot has the time of its expiry with it, and is not loaded after that.
Tick ==
    /\ life \in 1..SESSION_TTL \/ savedLife \in 1..SESSION_TTL
    /\ life' = Shorter(life)
    /\ stored' = IF REDIS_OK /\ life' = 0 THEN None ELSE stored
    /\ savedLife' = Shorter(savedLife)
    /\ saved' = IF savedLife' = 0 THEN None ELSE saved
    /\ age' = [t \in Tokens |-> IF t \in created /\ age[t] < SESSION_TTL
                               THEN age[t] + 1 ELSE age[t]]
    /\ UNCHANGED <<REDIS_OK, issued, cookie, request, created, fate>>

\* Redis saves a snapshot: after a minute with a change in it, or when it is stopped.
Save ==
    /\ REDIS_OK
    /\ snapshot # record
    /\ saved' = stored /\ savedLife' = life
    /\ UNCHANGED <<REDIS_OK, record, issued, cookie, request, history>>

\* It drops the key for want of memory, or crashes and restarts from the snapshot.
LoseKey ==
    /\ REDIS_OK
    /\ \/ stored # None /\ stored' = None /\ life' = 0
       \/ record # snapshot /\ stored' = saved /\ life' = savedLife
    /\ fate' = Meets("lost")
    /\ UNCHANGED <<REDIS_OK, snapshot, issued, cookie, request, created, age>>

Next == \/ \E r \in Requests : PostLogin(r) \/ GetPage(r) \/ GetLogout(r)
                                   \/ Serve(r) \/ Fails(r)
        \/ \E b \in Browsers : Close(b)
        \/ Tick \/ Save \/ LoseKey

Spec == Init /\ [][Next]_vars

\* Requests are served, and time passes.
FairSpec == Spec /\ WF_vars(Tick) /\ \A r \in Requests : WF_vars(Serve(r))
--------------------------------------------------------------------------------
\* Every variable keeps its type; the record has a life only while it is there.
TypeOK ==
    /\ REDIS_OK \in BOOLEAN
    /\ stored \in Tokens \cup {None} /\ life \in 0..SESSION_TTL
    /\ stored = None => life = 0
    /\ REDIS_OK /\ life = 0 => stored = None
    /\ saved \in Tokens \cup {None} /\ savedLife \in 0..SESSION_TTL
    /\ saved = None <=> savedLife = 0
    /\ issued \in 0..MaxLogins
    /\ cookie \in [Browsers -> Tokens \cup {None}]
    /\ pc \in [Requests -> {"idle", "create", "store", "welcome", "read", "write",
                            "pop", "delete", "bye"}]
    /\ token \in [Requests -> Tokens \cup {None}]
    /\ created \subseteq Tokens
    /\ fate \in [Tokens -> {"kept", "loggedOut", "overwritten", "lost"}]
    /\ age \in [Tokens -> 0..SESSION_TTL]

Live(t) == t \in created /\ age[t] < SESSION_TTL

\* A session that was used within its life is on record, and so keeps every other login
\* out, unless since its last use a logout ended it, or a validation that was under way
\* when an earlier session ended wrote that one back over it, or Redis lost its key:
\* nothing else ever takes it away, no two logins get in at the same time, and a session
\* that came back one of these ways is kept like any other from its next use on.  And no
\* session stays that was not used within its life, not even one that was written back
\* or came back with a snapshot.
LiveSessionIsKept ==
    REDIS_OK => /\ \A t \in Tokens : fate[t] = "kept" /\ Live(t) => stored = t
                /\ stored # None => Live(stored)

\* Once nobody uses it any more a session ends by itself, and the next login succeeds,
\* even one that a late validation has brought back.
IdleSessionEnds ==
    REDIS_OK /\ <>[](\A r \in Requests : pc[r] = "idle") => <>[](stored = None)

\* Without Redis a session that is over blocks the login only until the next request
\* of anybody who still has a cookie.
LeftoverIsCleared ==
    ~REDIS_OK /\ stored # None /\ life = 0 /\ (\E r \in Requests : pc[r] = "read")
        ~> (stored = None \/ life > 0)
================================================================================
