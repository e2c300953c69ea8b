----------------------------- MODULE CircuitBreaker -----------------------------
(***************************************************************************)
(* The API gateway's circuit breaker for the order service, shared by the  *)
(* threads that serve POST /api/order: each checks the circuit, calls the  *)
(* order service without the lock, and records the outcome.  A call may    *)
(* take longer (timeout 40 s) than the circuit stays open (30 s).          *)
(*                                                                         *)
(* time.time() is compared only with open_until, so the model keeps what   *)
(* is left of the open period.                                             *)
(***************************************************************************)
EXTENDS Naturals

CONSTANTS
    Requests,      \* calls of place_order; an identity is used again and again
    CB_THRESHOLD,  \* failures in a row that open the circuit
    CB_TIMEOUT,    \* how long it stays open
    CallTimeout,   \* bound: the longest call of the order service
    FailsCap       \* bound of the history counters of failures

ASSUME BreakerAssumption ==
    /\ CB_THRESHOLD \in Nat \ {0} /\ CB_TIMEOUT \in Nat \ {0}
    /\ CallTimeout \in Nat
    /\ FailsCap \in Nat /\ CB_THRESHOLD <= FailsCap

VARIABLES
    orderUp,     \* the order service answers 200
    open,        \* _cb_state["order-service"]["open"]
    fail_count,  \* ... ["fail_count"]
    remaining,   \* ... ["open_until"] - time.time(), 0 once it has passed
    calling,     \* the requests between the check and the recorded outcome
    calledFor,   \* how long each of them has been calling
    fails,       \* history: failures recorded since the last success
    unopened,    \* ... and since the circuit last opened for its whole time
    failAge      \* history: time since the last recorded failure

circuit == <<open, fail_count, remaining>>
history == <<fails, unopened, failAge>>
vars    == <<orderUp, circuit, calling, calledFor, history>>

Init ==
    /\ orderUp \in BOOLEAN
    /\ open = FALSE /\ fail_count = 0 /\ remaining = 0
    /\ calling = {}
    /\ calledFor = [r \in Requests |-> 0]
    /\ fails = 0 /\ unopened = 0 /\ failAge = CB_TIMEOUT

Up(k, bound) == IF k < bound THEN k + 1 ELSE k

\* Variant: an open circuit never lets anyone try again.
RejectsForever == open

\* _cb_check returns False: the request is answered 503 and changes nothing.
Rejecting == open /\ remaining > 0

\* Variant: requests pass while the circuit is open.
AdmitsAlways(r) ==
    /\ r \notin calling
    /\ open' = Rejecting
    /\ calling' = calling \cup {r}
    /\ calledFor' = [calledFor EXCEPT ![r] = 0]
    /\ UNCHANGED <<orderUp, fail_count, remaining, history>>

\* _cb_check returns True, closing a circuit whose open period is over.
Admit(r) ==
    /\ r \notin calling
    /\ ~Rejecting
    /\ open' = FALSE
    /\ calling' = calling \cup {r}
    /\ calledFor' = [calledFor EXCEPT ![r] = 0]
    /\ UNCHANGED <<orderUp, fail_count, remaining, history>>

\* Variant: the counter is not reset when the circuit opens.
OpensWithoutReset ==
    LET count == fail_count + 1
    IN  /\ fail_count' = count
        /\ IF count >= CB_THRESHOLD
           THEN open' = TRUE /\ remaining' = CB_TIMEOUT
           ELSE UNCHANGED <<open, remaining>>

\* Variant: the circuit stays open for as long as a call may take.
OpensForACall ==
    LET count == fail_count + 1
    IN  IF count >= CB_THRESHOLD
        THEN open' = TRUE /\ remaining' = CallTimeout /\ fail_count' = 0
        ELSE fail_count' = count /\ UNCHANGED <<open, remaining>>

\* _cb_record_failure, for any answer but 200 and for any exception.
RecordFailure ==
    LET count == fail_count + 1
    IN  IF count >= CB_THRESHOLD
        THEN open' = TRUE /\ remaining' = CB_TIMEOUT /\ fail_count' = 0
        ELSE fail_count' = count /\ UNCHANGED <<open, remaining>>

\* Variant: a success closes the circuit but keeps the count.
ClosesWithoutReset == open' = FALSE /\ remaining' = 0 /\ UNCHANGED fail_count

\* _cb_record_success replaces the whole state, whatever it was.
RecordSuccess == open' = FALSE /\ remaining' = 0 /\ fail_count' = 0

Return(r) == /\ r \in calling
             /\ calling' = calling \ {r}
             /\ calledFor' = [calledFor EXCEPT ![r] = 0]
             /\ UNCHANGED orderUp

Fail(r) == /\ ~orderUp
           /\ Return(r)
           /\ RecordFailure
           /\ fails' = Up(fails, FailsCap)
           /\ unopened' = IF open' /\ remaining' = CB_TIMEOUT THEN 0
                          ELSE Up(unopened, FailsCap)
           /\ failAge' = 0

\* A payload that is no JSON object raises before the call is made: no outcome is
\* recorded, not even for a circuit that this request has half opened.
Abandon(r) == calledFor[r] = 0 /\ Return(r) /\ UNCHANGED <<circuit, history>>

Succeed(r) == /\ orderUp
              /\ Return(r)
              /\ RecordSuccess
              /\ fails' = 0 /\ unopened' = 0
              /\ UNCHANGED failAge

\* One unit of time; no call outlasts its timeout.
Tick == /\ \A r \in calling : calledFor[r] < CallTimeout
        /\ remaining' = IF remaining > 0 THEN remaining - 1 ELSE 0
        /\ calledFor' = [r \in Requests |-> IF r \in calling THEN calledFor[r] + 1 ELSE 0]
        /\ failAge' = Up(failAge, CB_TIMEOUT)
        /\ UNCHANGED <<orderUp, open, fail_count, calling, fails, unopened>>

\* The order service fails, or recovers.
Turn == orderUp' = ~orderUp /\ UNCHANGED <<circuit, calling, calledFor, history>>

Returns == \E r \in Requests : Fail(r) \/ Succeed(r)

Next == (\E r \in Requests : Admit(r) \/ Abandon(r)) \/ Returns \/ Tick \/ Turn

Spec == Init /\ [][Next]_vars

\* Time passes and calls come to an end.
FairSpec == Spec /\ WF_vars(Tick) /\ WF_vars(Returns)
--------------------------------------------------------------------------------
\* Every variable keeps its type, and the counter stays below the threshold.
TypeOK ==
    /\ orderUp \in BOOLEAN
    /\ open \in BOOLEAN
    /\ fail_count \in 0..(CB_THRESHOLD - 1)
    /\ remaining \in 0..CB_TIMEOUT
    /\ calling \subseteq Requests
    /\ calledFor \in [Requests -> 0..CallTimeout]
    /\ fails \in 0..FailsCap /\ unopened \in 0..FailsCap
    /\ failAge \in 0..CB_TIMEOUT

\* The circuit is open only after CB_THRESHOLD failures with no success among them,
\* and so many without its opening there never are, however the outcomes of concurrent
\* calls interleave.
OpensWhenEarned == /\ open => fails >= CB_THRESHOLD
                   /\ unopened < CB_THRESHOLD

\* Requests are rejected only within CB_TIMEOUT of a failure that was recorded.
RejectionIsRecent == Rejecting => remaining + failAge <= CB_TIMEOUT

\* While the circuit is open no new call reaches the order service: every call
\* still under way began before the circuit opened.
OpenAdmitsNobody ==
    Rejecting => \A r \in calling : calledFor[r] + remaining >= CB_TIMEOUT

\* Once the order service answers again, requests stop being rejected for good.
Recovers == <>[]orderUp => <>[]~Rejecting
================================================================================
