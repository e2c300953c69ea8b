-------------------------- MODULE CircuitBreakerProofs --------------------------
(***************************************************************************)
(* Theorems about CircuitBreaker, for any number of concurrent requests,   *)
(* any threshold and any timeouts.                                         *)
(***************************************************************************)
EXTENDS CircuitBreaker, TLAPS

\* The counter never runs ahead of the failures since the last success, and never
\* falls behind those since the circuit last opened.
CountIsBacked == unopened <= fail_count /\ fail_count <= fails

\* What is left of an open period and the time since the last failure add up to at
\* most the whole period; a failure while open restarts both or shortens the sum.
PeriodBound == remaining > 0 => remaining + failAge <= CB_TIMEOUT

BreakerInv == /\ TypeOK /\ CountIsBacked /\ PeriodBound
              /\ OpensWhenEarned /\ OpenAdmitsNobody

LEMMA Bounds == /\ CB_THRESHOLD \in Nat /\ CB_THRESHOLD > 0
                /\ CB_TIMEOUT \in Nat /\ CB_TIMEOUT > 0
                /\ CallTimeout \in Nat /\ FailsCap \in Nat /\ CB_THRESHOLD <= FailsCap
  BY BreakerAssumption

LEMMA Counting == ASSUME NEW bound \in Nat, NEW k \in 0..bound
                  PROVE  /\ Up(k, bound) \in 0..bound
                         /\ Up(k, bound) <= k + 1 /\ k <= Up(k, bound)
                         /\ \A m \in 0..bound : m <= k /\ m < bound => m + 1 <= Up(k, bound)
  BY DEF Up

LEMMA BreakerInit == Init => BreakerInv
<1> SUFFICES ASSUME Init PROVE BreakerInv
  OBVIOUS
<1>1. /\ 0 \in 0..(CB_THRESHOLD - 1) /\ 0 \in 0..CB_TIMEOUT /\ 0 \in 0..CallTimeout
      /\ 0 \in 0..FailsCap /\ CB_TIMEOUT \in 0..CB_TIMEOUT
  BY Bounds
<1>2. TypeOK
  BY <1>1, ZenonT(30) DEF Init, TypeOK
<1> QED
  BY <1>2, Bounds DEF Init, BreakerInv, CountIsBacked, PeriodBound, OpensWhenEarned,
     OpenAdmitsNobody, Rejecting

\* Recording a failure: the counter, the flag and the open period afterwards.
LEMMA FailureEffect ==
    ASSUME BreakerInv, NEW r \in Requests, Fail(r)
    PROVE  /\ open' \in BOOLEAN /\ fail_count' \in 0..(CB_THRESHOLD - 1)
           /\ remaining' \in 0..CB_TIMEOUT
           /\ fails' \in 0..FailsCap /\ unopened' \in 0..FailsCap /\ failAge' = 0
           /\ CountIsBacked' /\ OpensWhenEarned' /\ PeriodBound'
           /\ \/ UNCHANGED <<open, remaining>>
              \/ open' = TRUE /\ remaining' = CB_TIMEOUT
<1>1. /\ fail_count \in 0..(CB_THRESHOLD - 1) /\ fails \in 0..FailsCap
      /\ unopened \in 0..FailsCap /\ unopened <= fail_count /\ fail_count <= fails
      /\ open \in BOOLEAN /\ remaining \in 0..CB_TIMEOUT
  BY DEF BreakerInv, TypeOK, CountIsBacked
<1>2. /\ fails' \in 0..FailsCap /\ fails <= fails'
      /\ fail_count + 1 <= fails' /\ failAge' = 0
  <2>1. fails' = Up(fails, FailsCap) /\ failAge' = 0
    BY DEF Fail
  <2>2. fail_count \in 0..FailsCap /\ fail_count < FailsCap
    BY <1>1, Bounds
  <2> QED
    BY <1>1, <2>1, <2>2, Counting, Bounds
<1>3. /\ open' /\ remaining' = CB_TIMEOUT => unopened' = 0
      /\ unopened' \in 0..FailsCap /\ unopened' <= unopened + 1
  <2>1. unopened' = IF open' /\ remaining' = CB_TIMEOUT THEN 0 ELSE Up(unopened, FailsCap)
    BY DEF Fail
  <2> QED
    BY <1>1, <2>1, Counting, Bounds
<1>4. CASE fail_count + 1 >= CB_THRESHOLD
  <2>1. open' = TRUE /\ remaining' = CB_TIMEOUT /\ fail_count' = 0
    BY <1>4 DEF Fail, RecordFailure
  <2> QED
    BY <1>1, <1>2, <1>3, <1>4, <2>1, Bounds DEF CountIsBacked, OpensWhenEarned, PeriodBound
<1>5. CASE ~(fail_count + 1 >= CB_THRESHOLD)
  <2>1. fail_count' = fail_count + 1 /\ open' = open /\ remaining' = remaining
    BY <1>5 DEF Fail, RecordFailure
  <2>2. fail_count' \in 0..(CB_THRESHOLD - 1) /\ CountIsBacked'
    BY <1>1, <1>2, <1>3, <1>5, <2>1, Bounds DEF CountIsBacked
  <2>3. OpensWhenEarned'
    <3>1. unopened' < CB_THRESHOLD
      BY <1>1, <1>3, <1>5, Bounds
    <3> QED
      BY <1>1, <1>2, <2>1, <3>1, Bounds DEF OpensWhenEarned, BreakerInv
  <2>4. PeriodBound'
    BY <1>1, <1>2, <2>1, Bounds DEF PeriodBound
  <2> QED
    BY <1>1, <1>2, <1>3, <2>1, <2>2, <2>3, <2>4
<1> QED
  BY <1>4, <1>5

LEMMA BreakerStep == BreakerInv /\ [Next]_vars => BreakerInv'
<1> SUFFICES ASSUME BreakerInv, [Next]_vars PROVE BreakerInv'
  OBVIOUS
<1>1. /\ 0 \in 0..(CB_THRESHOLD - 1) /\ 0 \in 0..CB_TIMEOUT /\ 0 \in 0..CallTimeout
      /\ 0 \in 0..FailsCap
  BY Bounds
<1>2. TypeOK
  BY DEF BreakerInv
<1>3. ASSUME NEW r \in Requests, Admit(r) PROVE BreakerInv'
  <2>1. TypeOK'
    BY <1>1, <1>2, <1>3, ZenonT(30) DEF Admit, TypeOK, circuit, history
  <2>2. open' = FALSE /\ UNCHANGED <<fail_count, fails, unopened, remaining, failAge>>
    BY <1>3 DEF Admit, history
  <2> QED
    BY <2>1, <2>2 DEF BreakerInv, CountIsBacked, PeriodBound, OpensWhenEarned,
       OpenAdmitsNobody, Rejecting
<1>4. ASSUME NEW r \in Requests, Fail(r) PROVE BreakerInv'
  <2>1. /\ calling' = calling \ {r} /\ calledFor' = [calledFor EXCEPT ![r] = 0]
        /\ orderUp' = orderUp
    BY <1>4 DEF Fail, Return
  <2>2. TypeOK'
    BY <1>1, <1>2, <1>4, <2>1, FailureEffect, ZenonT(30) DEF TypeOK
  <2>3. OpenAdmitsNobody'
    <3>1. \A s \in calling' : /\ s \in calling /\ calledFor'[s] = calledFor[s]
                              /\ calledFor[s] \in Nat
      BY <1>2, <2>1 DEF TypeOK
    <3>2. CASE UNCHANGED <<open, remaining>>
      BY <3>1, <3>2 DEF BreakerInv, OpenAdmitsNobody, Rejecting
    <3>3. CASE remaining' = CB_TIMEOUT
      BY <3>1, <3>3, Bounds DEF OpenAdmitsNobody
    <3> QED
      BY <1>4, <3>2, <3>3, FailureEffect
  <2> QED
    BY <1>4, <2>2, <2>3, FailureEffect DEF BreakerInv
<1>5. ASSUME NEW r \in Requests, Succeed(r) PROVE BreakerInv'
  <2>1. /\ open' = FALSE /\ fail_count' = 0 /\ remaining' = 0 /\ fails' = 0
        /\ unopened' = 0
    BY <1>5 DEF Succeed, RecordSuccess
  <2>2. TypeOK'
    BY <1>1, <1>2, <1>5, ZenonT(30) DEF Succeed, RecordSuccess, Return, TypeOK
  <2> QED
    BY <2>1, <2>2, Bounds DEF BreakerInv, CountIsBacked, PeriodBound, OpensWhenEarned,
       OpenAdmitsNobody, Rejecting
<1>6. CASE Tick
  <2>1. /\ UNCHANGED <<orderUp, open, fail_count, calling, fails, unopened>>
        /\ remaining' = IF remaining > 0 THEN remaining - 1 ELSE 0
        /\ failAge' = Up(failAge, CB_TIMEOUT)
        /\ remaining \in 0..CB_TIMEOUT /\ failAge \in 0..CB_TIMEOUT
    BY <1>2, <1>6 DEF Tick, TypeOK
  <2>2. /\ remaining' \in 0..CB_TIMEOUT /\ failAge' \in 0..CB_TIMEOUT
        /\ failAge' <= failAge + 1
    BY <2>1, Bounds, Counting
  <2>3. calledFor' \in [Requests -> 0..CallTimeout]
    BY <1>2, <1>6, Bounds DEF Tick, TypeOK
  <2>4. TypeOK'
    BY <1>2, <2>1, <2>2, <2>3, ZenonT(30) DEF TypeOK
  <2>5. CountIsBacked' /\ OpensWhenEarned'
    BY <2>1 DEF BreakerInv, CountIsBacked, OpensWhenEarned
  <2>6. PeriodBound'
    BY <2>1, <2>2, Bounds DEF BreakerInv, PeriodBound
  <2>7. OpenAdmitsNobody'
    <3>1. \A r \in calling' : /\ r \in calling /\ calledFor'[r] = calledFor[r] + 1
                              /\ calledFor[r] \in Nat
      BY <1>2, <1>6, <2>1 DEF Tick, TypeOK
    <3>2. Rejecting' => Rejecting /\ remaining' = remaining - 1
      BY <2>1 DEF Rejecting
    <3> QED
      BY <2>1, <3>1, <3>2, Bounds DEF BreakerInv, OpenAdmitsNobody
  <2> QED
    BY <2>4, <2>5, <2>6, <2>7 DEF BreakerInv
<1>7. CASE Turn \/ UNCHANGED vars
  <2>1. /\ UNCHANGED <<circuit, calling, calledFor, history>>
        /\ orderUp' \in BOOLEAN
    BY <1>2, <1>7, ZenonT(30) DEF Turn, vars, TypeOK
  <2>2. TypeOK'
    BY <1>2, <2>1, ZenonT(30) DEF TypeOK, circuit, history
  <2> QED
    BY <2>1, <2>2 DEF BreakerInv, CountIsBacked, PeriodBound, OpensWhenEarned,
       OpenAdmitsNobody, Rejecting, circuit, history
<1>8. ASSUME NEW r \in Requests, Abandon(r) PROVE BreakerInv'
  <2>1. /\ calling' = calling \ {r} /\ calledFor' = [calledFor EXCEPT ![r] = 0]
        /\ UNCHANGED <<orderUp, open, fail_count, remaining, fails, unopened, failAge>>
    BY <1>8 DEF Abandon, Return, circuit, history
  <2>2. TypeOK'
    BY <1>1, <1>2, <2>1, ZenonT(30) DEF TypeOK
  <2>3. \A s \in calling' : s \in calling /\ calledFor'[s] = calledFor[s]
    BY <1>2, <2>1 DEF TypeOK
  <2> QED
    BY <2>1, <2>2, <2>3 DEF BreakerInv, CountIsBacked, PeriodBound, OpensWhenEarned,
       OpenAdmitsNobody, Rejecting
<1> QED
  BY <1>3, <1>4, <1>5, <1>6, <1>7, <1>8 DEF Next, Returns

LEMMA BreakerInvariant == Spec => []BreakerInv
  BY BreakerInit, BreakerStep, PTL DEF Spec

\* Every reachable state of the breaker is well typed; in particular the failure
\* counter that dashboards read stays below the threshold.
THEOREM TypeCorrect == Spec => []TypeOK
<1>1. BreakerInv => TypeOK
  BY DEF BreakerInv
<1> QED
  BY <1>1, BreakerInvariant, PTL

\* However many calls overlap, the circuit opens on CB_THRESHOLD failures with no
\* success among them, neither earlier nor later, rejects only within CB_TIMEOUT of a
\* recorded failure, and lets no call start while it rejects.
THEOREM BreakerIsSafe == Spec => [](OpensWhenEarned /\ RejectionIsRecent /\ OpenAdmitsNobody)
<1>1. BreakerInv => OpensWhenEarned /\ RejectionIsRecent /\ OpenAdmitsNobody
  BY DEF BreakerInv, PeriodBound, RejectionIsRecent, Rejecting
<1> QED
  BY <1>1, BreakerInvariant, PTL

\* Whatever the threshold and the timeout, an old failure rejects nobody.
COROLLARY OldFailuresRejectNobody == Spec => []RejectionIsRecent
  BY BreakerIsSafe, PTL

\* No call starts while the circuit is open, however many requests race for it.
COROLLARY NobodyEntersAnOpenCircuit == Spec => []OpenAdmitsNobody
  BY BreakerIsSafe, PTL
================================================================================
