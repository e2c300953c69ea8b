--------------------------- MODULE LogPipelineProofs ---------------------------
(***************************************************************************)
(* Theorems about LogPipeline, for any set of entries, size of a batch,    *)
(* number of attempts and of faults.                                       *)
(***************************************************************************)
EXTENDS LogPipeline, TLAPS

Distinct(list) == \A i, j \in 1..Len(list) : list[i] = list[j] => i = j

\* Each entry is pushed at most once, so the queue holds it once, and so does a snapshot
\* of it.  But for a flush, during which a snapshot may come back, the buffer has only
\* what has left the queue, nothing while no worker runs; and only a flush has documents
\* of its batch inserted.
QueueInv ==
    /\ Distinct(queue) /\ Distinct(saved)
    /\ \A l \in Logs : stage[l] = "new" => l \notin Queued \cup Entries(saved) \cup buffer
    /\ worker # "flush" => Queued \cap buffer = {} /\ applied = {}
    /\ worker = "down" => buffer = {}

PipelineInv == TypeOK /\ QueueInv

\* What a sender may have delivered at each stage: the push, then either post.
SenderInv ==
    \A l \in Logs : /\ arrivals[l] <= 3
                    /\ stage[l] = "new"     => arrivals[l] = 0
                    /\ stage[l] = "primary" => arrivals[l] <= 1
                    /\ stage[l] = "backup"  => arrivals[l] <= 2

\* A step delivers as LogDelivery allows, or is none of its business.
DeliveryStep == [Delivery!Next]_(Delivery!vars)
--------------------------------------------------------------------------------
LEMMA Bounds == /\ MaxFaults \in Nat /\ MAX_RETRY_ATTEMPTS \in Nat
                /\ MAX_RETRY_ATTEMPTS >= 1
  BY PipelineAssumption

LEMMA QueuedAre ==
    ASSUME queue \in Seq(Logs)
    PROVE  /\ Queued = {queue[i] : i \in 1..Len(queue)} /\ Queued \subseteq Logs
           /\ queue = << >> => Queued = {}
  BY DEF Queued, Entries

LEMMA SavedAre ==
    ASSUME saved \in Seq(Logs)
    PROVE  Entries(saved) \in SUBSET Logs
  BY DEF Entries

\* An entry joins the queue.
LEMMA Joined ==
    ASSUME queue \in Seq(Logs), QueueInv, NEW l \in Logs, l \notin Queued,
           queue' = Append(queue, l)
    PROVE  /\ queue' \in Seq(Logs) /\ Queued' = Queued \cup {l}
           /\ Distinct(queue')
<1>1. /\ queue' \in Seq(Logs) /\ Len(queue') = Len(queue) + 1
      /\ \A i \in 1..Len(queue) : queue'[i] = queue[i]
      /\ queue'[Len(queue) + 1] = l /\ DOMAIN queue' = 1..Len(queue')
  OBVIOUS
<1>2. \A i \in 1..Len(queue) : queue[i] # l
  BY QueuedAre
<1>3. \A i \in 1..Len(queue') : i \in 1..Len(queue) \/ i = Len(queue) + 1
  BY <1>1
<1>4. Queued' = Queued \cup {l}
  <2>1. \A i \in 1..Len(queue) : i \in 1..Len(queue')
    BY <1>1
  <2>2. Len(queue) + 1 \in 1..Len(queue')
    BY <1>1
  <2> QED
    BY <1>1, <1>3, <2>1, <2>2, QueuedAre DEF Queued, Entries
<1>5. Distinct(queue')
  BY <1>1, <1>2, <1>3 DEF QueueInv, Distinct
<1> QED
  BY <1>1, <1>4, <1>5

\* The oldest entry leaves it.
LEMMA Left ==
    ASSUME queue \in Seq(Logs), QueueInv, queue # << >>, queue' = Tail(queue)
    PROVE  /\ queue' \in Seq(Logs) /\ Head(queue) \in Logs /\ Head(queue) \in Queued
           /\ Queued' = Queued \ {Head(queue)}
           /\ Distinct(queue')
<1>1. /\ queue' \in Seq(Logs) /\ Len(queue') = Len(queue) - 1 /\ Len(queue) >= 1
      /\ \A i \in 1..Len(queue') : queue'[i] = queue[i + 1] /\ i + 1 \in 1..Len(queue)
      /\ Head(queue) = queue[1] /\ 1 \in 1..Len(queue) /\ DOMAIN queue' = 1..Len(queue')
  OBVIOUS
<1>2. \A i \in 1..Len(queue) : i = 1 \/ (i - 1 \in 1..Len(queue') /\ queue[i] = queue'[i - 1])
  BY <1>1
<1>3. \A i \in 1..Len(queue') : queue'[i] # queue[1]
  BY <1>1 DEF QueueInv, Distinct
<1>4. Queued' = Queued \ {Head(queue)}
  <2>1. /\ Queued' = {queue'[i] : i \in 1..Len(queue')}
        /\ Queued = {queue[i] : i \in 1..Len(queue)}
    BY <1>1, QueuedAre DEF Queued, Entries
  <2>2. ASSUME NEW e \in Queued' PROVE e \in Queued \ {Head(queue)}
    BY <1>1, <1>3, <2>1, <2>2
  <2>3. ASSUME NEW e \in Queued \ {Head(queue)} PROVE e \in Queued'
    <3>1. PICK i \in 1..Len(queue) : e = queue[i]
      BY <2>1, <2>3
    <3>2. i # 1
      BY <1>1, <2>3, <3>1
    <3>3. i - 1 \in 1..Len(queue') /\ e = queue'[i - 1]
      BY <1>2, <3>1, <3>2
    <3> QED
      BY <2>1, <3>3
  <2> QED
    BY <2>2, <2>3
<1>5. Distinct(queue')
  BY <1>1 DEF QueueInv, Distinct
<1> QED
  BY <1>1, <1>4, <1>5, QueuedAre

LEMMA PipelineInit == Init => PipelineInv
<1> SUFFICES ASSUME Init PROVE PipelineInv
  OBVIOUS
<1>1. /\ queue = << >> /\ queue \in Seq(Logs) /\ Queued = {}
      /\ saved = << >> /\ saved \in Seq(Logs) /\ Entries(saved) = {}
  BY DEF Init, Queued, Entries
<1>2. Len(queue) = 0 /\ Len(saved) = 0
  BY <1>1
<1>3. TypeOK
  <2>1. MaxFaults \in 0..MaxFaults /\ 1 \in 1..(MAX_RETRY_ATTEMPTS + 1)
    BY Bounds
  <2>2. stage \in [Logs -> {"new", "primary", "backup", "done", "printed"}]
    BY DEF Init
  <2>3. /\ stored \in [Logs -> Nat] /\ arrivals \in [Logs -> Nat]
        /\ restored \in [Logs -> Nat]
    BY DEF Init
  <2> QED
    BY <1>1, <2>1, <2>2, <2>3 DEF Init, TypeOK
<1>4. QueueInv
  BY <1>1, <1>2 DEF Init, QueueInv, Distinct
<1> QED
  BY <1>3, <1>4 DEF PipelineInv
--------------------------------------------------------------------------------
\* The steps of LogDelivery, told by what each does to the copies that wait.

LEMMA WaitingType == \A l : Waiting(l) \in 0..2
  BY DEF Waiting

LEMMA Accepts ==
    ASSUME NEW l \in Logs, arrivals' = Plus(arrivals, {l}), UNCHANGED <<stored, atRisk, dropped, restored>>,
           \A o \in Logs : Waiting(o)' = IF o = l THEN Waiting(o) + 1 ELSE Waiting(o)
    PROVE  DeliveryStep
<1>1. Delivery!Accept(l)
  BY DEF Delivery!Accept, Delivery!More, Delivery!failures, Plus
<1> QED
  BY <1>1 DEF DeliveryStep, Delivery!Next

LEMMA AcceptsStored ==
    ASSUME NEW l \in Logs, Ingest(l), UNCHANGED <<atRisk, dropped, restored>>,
           \A o \in Logs : Waiting(o)' = Waiting(o)
    PROVE  DeliveryStep
<1>1. Delivery!AcceptStored(l)
  BY DEF Delivery!AcceptStored, Delivery!More, Delivery!failures, Ingest, Plus
<1> QED
  BY <1>1 DEF DeliveryStep, Delivery!Next

LEMMA Stores ==
    ASSUME NEW part \in SUBSET Logs, stored' = Plus(stored, part),
           UNCHANGED <<arrivals, atRisk, dropped, restored>>,
           \A o \in part : Waiting(o) > 0,
           \A o \in Logs : Waiting(o)' = IF o \in part THEN Waiting(o) - 1 ELSE Waiting(o)
    PROVE  DeliveryStep
<1>1. part = Delivery!Waiting(part)
  BY DEF Delivery!Waiting
<1>2. Delivery!Store(part)
  BY <1>1 DEF Delivery!Store, Delivery!More, Delivery!Less, Delivery!failures, Plus
<1> QED
  BY <1>2 DEF DeliveryStep, Delivery!Next

Back(o, back) == IF o \in back THEN 1 ELSE 0

LEMMA Crashes ==
    ASSUME NEW held \in SUBSET Logs, NEW gone \in SUBSET Logs, NEW back \in SUBSET Logs,
           atRisk' = atRisk \cup held, dropped' = dropped \cup gone,
           restored' = Plus(restored, back), UNCHANGED <<arrivals, stored>>,
           \A o \in Logs : \/ Waiting(o)' = Waiting(o) + Back(o, back)
                           \/ /\ o \in held \cup gone /\ Waiting(o) > 0
                              /\ Waiting(o)' = (Waiting(o) - 1) + Back(o, back)
    PROVE  DeliveryStep
<1> DEFINE lost == {o \in held \cup gone : Waiting(o)' # Waiting(o) + Back(o, back)}
<1>1. lost \in SUBSET Delivery!Waiting(held \cup gone)
  BY DEF Delivery!Waiting
<1>2. \A o \in Logs : Waiting(o) \in 0..2
  BY WaitingType
<1>3. \A o \in Logs : Waiting(o)' = (IF o \in lost THEN Waiting(o) - 1 ELSE Waiting(o))
                                   + Back(o, back)
  BY <1>2 DEF Back
<1>4. [o \in Logs |-> Waiting(o)]'
        = Delivery!More(Delivery!Less([o \in Logs |-> Waiting(o)], lost), back)
  <2> HIDE DEF lost
  <2> QED
    BY <1>2, <1>3 DEF Delivery!Less, Delivery!More, Back
<1>5. restored' = Delivery!More(restored, back)
  BY DEF Plus, Delivery!More
<1>6. Delivery!Crash(held, gone, back)
  <2> HIDE DEF lost
  <2> QED
    BY <1>1, <1>4, <1>5 DEF Delivery!Crash
<1> QED
  BY <1>6 DEF DeliveryStep, Delivery!Next

\* Redis has no part in it: only the process dies.
LEMMA NothingBack ==
    ASSUME restored \in [Logs -> Nat], UNCHANGED restored
    PROVE  restored' = Plus(restored, {})
<1>1. restored = [l \in Logs |-> restored[l]]
  OBVIOUS
<1> QED
  BY <1>1 DEF Plus

LEMMA Stutters ==
    ASSUME UNCHANGED <<arrivals, stored, atRisk, dropped, restored>>,
           \A o \in Logs : Waiting(o)' = Waiting(o)
    PROVE  DeliveryStep
  BY DEF DeliveryStep, Delivery!vars, Delivery!failures
--------------------------------------------------------------------------------
\* Steps of a sender.

LEMMA PushStep ==
    ASSUME PipelineInv, NEW l \in Logs, Push(l)
    PROVE  PipelineInv' /\ DeliveryStep
<1>1. TypeOK /\ QueueInv /\ stage[l] = "new"
  BY DEF PipelineInv, Push
<1>2. /\ UNCHANGED <<outside, REDIS_AVAILABLE, process, stored, dead, atRisk, gaveUp>>
      /\ \E s \in {"done", "primary"} : stage' = [stage EXCEPT ![l] = s]
      /\ faults' \in 0..MaxFaults
  BY <1>1, Bounds DEF Push, Fault, TypeOK
<1>3. CASE Pushed(l)
  <2>1. l \notin Queued \cup buffer /\ queue \in Seq(Logs)
    BY <1>1 DEF QueueInv, TypeOK
  <2>2. /\ queue' \in Seq(Logs) /\ Queued' = Queued \cup {l}
        /\ Distinct(queue')
    BY <1>1, <1>3, <2>1, Joined DEF Pushed
  <2>3. arrivals' = Plus(arrivals, {l}) /\ arrivals' \in [Logs -> Nat]
    BY <1>1, <1>3 DEF Pushed, Plus, TypeOK
  <2>4. TypeOK'
    BY <1>1, <1>2, <2>2, <2>3 DEF TypeOK, outside, process
  <2>5. QueueInv'
    BY <1>1, <1>2, <2>1, <2>2 DEF QueueInv, TypeOK, process, outside
  <2>6. \A o \in Logs : Waiting(o)' = IF o = l THEN Waiting(o) + 1 ELSE Waiting(o)
    BY <1>2, <2>1, <2>2 DEF Waiting, process
  <2> QED
    BY <1>2, <2>3, <2>4, <2>5, <2>6, Accepts DEF PipelineInv, outside
<1>4. CASE UNCHANGED <<queue, arrivals>>
  <2>1. Queued' = Queued
    BY <1>4 DEF Queued, Entries
  <2>2. TypeOK'
    BY <1>1, <1>2, <1>4 DEF TypeOK, outside, process
  <2>3. QueueInv'
    BY <1>1, <1>2, <1>4, <2>1 DEF QueueInv, TypeOK, process, outside
  <2>4. \A o \in Logs : Waiting(o)' = Waiting(o)
    BY <1>2, <2>1 DEF Waiting, process
  <2> QED
    BY <1>2, <1>4, <2>2, <2>3, <2>4, Stutters DEF PipelineInv, outside
<1> QED
  BY <1>3, <1>4 DEF Push

LEMMA PostStep ==
    ASSUME PipelineInv, NEW l \in Logs, Post(l)
    PROVE  PipelineInv' /\ DeliveryStep
<1>1. TypeOK /\ QueueInv
  BY DEF PipelineInv
<1>2. /\ UNCHANGED <<outside, REDIS_AVAILABLE, queue, process, dead, atRisk, gaveUp>>
      /\ stage[l] # "new"
      /\ \E s \in {"done", "backup", "printed"} : stage' = [stage EXCEPT ![l] = s]
      /\ faults' \in 0..MaxFaults
  BY <1>1, Bounds DEF Post, Fault, TypeOK, NextStage
<1>3. Queued' = Queued
  BY <1>2 DEF Queued, Entries
<1>4. \/ Ingest(l)
      \/ UNCHANGED <<stored, arrivals>>
  BY DEF Post
<1>5. stored' \in [Logs -> Nat] /\ arrivals' \in [Logs -> Nat]
  <2>1. stored \in [Logs -> Nat] /\ arrivals \in [Logs -> Nat]
    BY <1>1 DEF TypeOK
  <2> QED
    BY <1>4, <2>1 DEF Ingest, Plus
<1>6. TypeOK'
  BY <1>1, <1>2, <1>5 DEF TypeOK, outside, process
<1>7. QueueInv'
  BY <1>1, <1>2, <1>3 DEF QueueInv, TypeOK, process, outside
<1>8. \A o \in Logs : Waiting(o)' = Waiting(o)
  BY <1>2, <1>3 DEF Waiting, process
<1>9. DeliveryStep
  BY <1>2, <1>4, <1>8, AcceptsStored, Stutters DEF outside
<1> QED
  BY <1>6, <1>7, <1>9 DEF PipelineInv
--------------------------------------------------------------------------------
\* The worker ends with entries in its hands: all it had, and maybe one more.
LEMMA DeathStep ==
    ASSUME PipelineInv, NEW held \in SUBSET Logs, Dies(held), buffer \subseteq held,
           faults' \in 0..MaxFaults, gaveUp' \subseteq Logs,
           \/ UNCHANGED queue
           \/ /\ queue # << >> /\ queue' = Tail(queue) /\ Head(queue) \in held
              /\ worker = "loop",
           UNCHANGED <<outside, sender, stored, dead, arrivals>>
    PROVE  PipelineInv' /\ DeliveryStep
<1>1. TypeOK /\ QueueInv
  BY DEF PipelineInv
<1>2. /\ worker' = "down" /\ buffer' = {} /\ applied' = {} /\ attempt' = 1 /\ due' = FALSE
      /\ atRisk' = atRisk \cup held
  BY DEF Dies
<1>3. /\ queue' \in Seq(Logs) /\ Queued' \subseteq Queued /\ Distinct(queue')
      /\ \/ Queued' = Queued
         \/ Queued' = Queued \ {Head(queue)} /\ Head(queue) \in held /\ worker = "loop"
  <2>1. CASE UNCHANGED queue
    BY <1>1, <2>1 DEF QueueInv, TypeOK, Queued, Entries
  <2>2. CASE queue # << >> /\ queue' = Tail(queue) /\ Head(queue) \in held /\ worker = "loop"
    BY <1>1, <2>2, Left DEF TypeOK
  <2> QED
    BY <2>1, <2>2
<1>4. TypeOK'
  <2>1. atRisk' \subseteq Logs /\ 1 \in 1..(MAX_RETRY_ATTEMPTS + 1)
    BY <1>1, <1>2, Bounds DEF TypeOK
  <2> QED
    BY <1>1, <1>2, <1>3, <2>1 DEF TypeOK, outside, sender
<1>5. QueueInv'
  BY <1>1, <1>2, <1>3 DEF QueueInv, sender, outside
<1>6. ASSUME NEW o \in Logs
      PROVE  \/ Waiting(o)' = Waiting(o) + Back(o, {})
             \/ /\ o \in held \cup {} /\ Waiting(o) > 0
                /\ Waiting(o)' = (Waiting(o) - 1) + Back(o, {})
  <2>1. worker = "loop" => ~(o \in Queued /\ o \in buffer)
    BY <1>1 DEF QueueInv
  <2> QED
    BY <1>2, <1>3, <2>1 DEF Waiting, Back
<1>7. dropped' = dropped \cup {} /\ restored' = Plus(restored, {})
  BY <1>1, NothingBack DEF TypeOK, outside
<1>8. {} \in SUBSET Logs
  OBVIOUS
<1>9. DeliveryStep
  BY <1>2, <1>6, <1>7, <1>8, Crashes
<1> QED
  BY <1>4, <1>5, <1>9 DEF PipelineInv

LEMMA DeathSteps ==
    ASSUME PipelineInv, RedisError \/ PopLost \/ GiveUp \/ Kill
    PROVE  PipelineInv' /\ DeliveryStep
<1>1. TypeOK /\ QueueInv
  BY DEF PipelineInv
<1>2. buffer \in SUBSET Logs
  BY <1>1 DEF TypeOK
<1>3. faults' \in 0..MaxFaults /\ gaveUp' \subseteq Logs
  BY <1>1, Bounds DEF RedisError, PopLost, GiveUp, Kill, Fault, TypeOK
<1>4. CASE RedisError \/ GiveUp \/ Kill
  BY <1>2, <1>3, <1>4, DeathStep DEF RedisError, GiveUp, Kill
<1>5. CASE PopLost
  <2>1. Head(queue) \in Logs
    BY <1>1, <1>5, Left DEF PopLost, TypeOK
  <2>2. buffer \cup {Head(queue)} \in SUBSET Logs
    BY <1>2, <2>1
  <2> QED
    BY <1>3, <1>5, <2>2, DeathStep DEF PopLost
<1> QED
  BY <1>4, <1>5

\* An entry that moves from the queue to the buffer still waits.
LEMMA IterateStep ==
    ASSUME PipelineInv, Iterate
    PROVE  PipelineInv' /\ DeliveryStep
<1>1. TypeOK /\ QueueInv
  BY DEF PipelineInv
<1>2. /\ worker = "loop" /\ worker' \in {"loop", "flush"} /\ applied = {}
      /\ UNCHANGED <<outside, faults, sender, applied, attempt, due, stored, dead,
                     arrivals, atRisk, gaveUp>>
  BY <1>1 DEF Iterate, QueueInv
<1>3. CASE queue = << >>
  <2>1. UNCHANGED <<queue, buffer>>
    BY <1>3 DEF Iterate
  <2>2. Queued' = Queued
    BY <2>1 DEF Queued, Entries
  <2>3. TypeOK'
    BY <1>1, <1>2, <2>1 DEF TypeOK, outside, sender
  <2>4. QueueInv'
    BY <1>1, <1>2, <2>1, <2>2 DEF QueueInv, sender, outside
  <2>5. \A o \in Logs : Waiting(o)' = Waiting(o)
    BY <1>2, <2>1, <2>2 DEF Waiting
  <2> QED
    BY <1>2, <2>3, <2>4, <2>5, Stutters DEF PipelineInv, outside
<1>4. CASE queue # << >>
  <2>1. queue' = Tail(queue) /\ buffer' = buffer \cup {Head(queue)}
    BY <1>4 DEF Iterate
  <2>2. /\ queue' \in Seq(Logs) /\ Head(queue) \in Logs /\ Head(queue) \in Queued
        /\ Queued' = Queued \ {Head(queue)}
        /\ Distinct(queue')
    BY <1>1, <1>4, <2>1, Left DEF TypeOK
  <2>3. TypeOK'
    BY <1>1, <1>2, <2>1, <2>2 DEF TypeOK, outside, sender
  <2>4. QueueInv'
    BY <1>1, <1>2, <2>1, <2>2 DEF QueueInv, sender, outside
  <2>5. \A o \in Logs : Waiting(o)' = Waiting(o)
    <3>1. Head(queue) \notin buffer
      BY <1>1, <1>2, <2>2 DEF QueueInv
    <3> QED
      BY <1>2, <2>1, <2>2, <3>1 DEF Waiting
  <2> QED
    BY <1>2, <2>3, <2>4, <2>5, Stutters DEF PipelineInv, outside
<1> QED
  BY <1>3, <1>4

\* An attempt of flush_batch: the new documents of the batch are inserted, or some.
LEMMA FlushStep ==
    ASSUME PipelineInv, Bulk \/ BulkFails
    PROVE  PipelineInv' /\ DeliveryStep
<1>1. TypeOK /\ QueueInv
  BY DEF PipelineInv
<1>2. UNCHANGED <<outside, sender, queue, dead, arrivals, atRisk, gaveUp>>
  BY DEF Bulk, BulkFails
<1>3. Queued' = Queued
  BY <1>2 DEF Queued, Entries
<1>4. PICK part \in SUBSET (buffer \ applied) :
        /\ stored' = Plus(stored, part)
        /\ \/ /\ applied' = applied \cup part /\ attempt' = attempt + 1
              /\ UNCHANGED <<worker, buffer, due>> /\ worker = "flush"
           \/ /\ part = buffer /\ worker' = "loop" /\ buffer' = {} /\ applied' = {}
              /\ attempt' = 1 /\ due' = FALSE
  <2>1. CASE Bulk /\ applied = {}
    BY <2>1 DEF Bulk
  <2>2. CASE Bulk /\ applied # {}
    <3>1. /\ stored' = Plus(stored, buffer \ applied) /\ applied' = buffer
          /\ attempt' = attempt + 1 /\ UNCHANGED <<worker, buffer, due>>
          /\ worker = "flush"
      BY <2>2 DEF Bulk
    <3>2. buffer = applied \cup (buffer \ applied)
      BY <1>1 DEF TypeOK
    <3> QED
      BY <3>1, <3>2
  <2>3. CASE BulkFails /\ mongoUp
    BY <2>3 DEF BulkFails
  <2>4. CASE BulkFails /\ ~mongoUp
    <3>1. stored' = Plus(stored, {}) /\ applied' = applied \cup {}
      <4>1. UNCHANGED <<applied, stored>> /\ stored \in [Logs -> Nat]
        BY <1>1, <2>4 DEF BulkFails, TypeOK
      <4>2. stored = [l \in Logs |-> stored[l]]
        BY <4>1
      <4> QED
        BY <4>1, <4>2 DEF Plus
    <3> QED
      BY <2>4, <3>1 DEF BulkFails
  <2> QED
    BY <2>1, <2>2, <2>3, <2>4
<1>5. attempt' \in 1..(MAX_RETRY_ATTEMPTS + 1) /\ faults' \in 0..MaxFaults
  BY <1>1, Bounds DEF Bulk, BulkFails, Fault, TypeOK
<1>6. /\ stored' \in [Logs -> Nat]
      /\ \A l \in Logs : stored'[l] = IF l \in part THEN stored[l] + 1 ELSE stored[l]
  BY <1>1, <1>4 DEF Plus, TypeOK
<1>7. TypeOK'
  BY <1>1, <1>2, <1>4, <1>5, <1>6 DEF TypeOK, outside, sender
<1>8. QueueInv'
  BY <1>1, <1>2, <1>3, <1>4 DEF QueueInv, sender, outside
<1>9. part \in SUBSET Logs
  BY <1>1 DEF TypeOK
<1>10. /\ \A o \in part : Waiting(o) > 0
       /\ \A o \in Logs : Waiting(o)' = IF o \in part THEN Waiting(o) - 1 ELSE Waiting(o)
  <2>1. applied = {} \/ buffer' = buffer
    <3>1. part = buffer /\ part \subseteq buffer \ applied /\ applied \subseteq buffer
            => applied = {}
      OBVIOUS
    <3> QED
      BY <1>1, <1>4, <3>1 DEF TypeOK
  <2> QED
    BY <1>3, <1>4, <2>1 DEF Waiting
<1>11. DeliveryStep
  BY <1>2, <1>4, <1>9, <1>10, Stores DEF outside
<1> QED
  BY <1>7, <1>8, <1>11 DEF PipelineInv

\* Steps that touch neither entries nor their documents.
LEMMA IdleStep ==
    ASSUME PipelineInv, StartWorker \/ FlushIntervalPasses \/ Outage \/ Save
                       \/ UNCHANGED vars
    PROVE  PipelineInv' /\ DeliveryStep
<1>1. TypeOK /\ QueueInv
  BY DEF PipelineInv
<1>2. /\ UNCHANGED <<sender, queue, buffer, applied, attempt, stored, dead, arrivals,
                     atRisk, gaveUp, dropped, restored>>
      /\ saved' = saved \/ saved' = queue
      /\ worker' = worker \/ (worker = "down" /\ worker' = "loop")
  BY DEF StartWorker, FlushIntervalPasses, Outage, Save, vars, process, outside
<1>3. /\ redisUp' \in BOOLEAN /\ mongoUp' \in BOOLEAN /\ due' \in BOOLEAN
      /\ faults' \in 0..MaxFaults
  <2>1. CASE StartWorker \/ FlushIntervalPasses \/ Save \/ UNCHANGED vars
    BY <1>1, <2>1 DEF StartWorker, FlushIntervalPasses, Save, vars, process, outside, TypeOK
  <2>2. CASE Outage
    <3>1. faults' \in 0..MaxFaults
      BY <1>1, <2>2, Bounds DEF Outage, Fault, TypeOK
    <3>2. redisUp' \in BOOLEAN /\ mongoUp' \in BOOLEAN
      BY <1>1, <2>2 DEF Outage, TypeOK
    <3> QED
      BY <1>1, <2>2, <3>1, <3>2 DEF Outage, process, TypeOK
  <2> QED
    BY <2>1, <2>2
<1>4. /\ Queued' = Queued /\ Distinct(queue') /\ Distinct(saved')
      /\ Entries(saved)' \subseteq Queued \cup Entries(saved)
  <2>1. Queued' = Queued
    BY <1>2 DEF Queued, Entries
  <2>2. Entries(saved)' \in {Queued, Entries(saved)}
    BY <1>2 DEF Queued, Entries
  <2> QED
    BY <1>1, <1>2, <2>1, <2>2 DEF QueueInv
<1>5. TypeOK'
  BY <1>1, <1>2, <1>3 DEF TypeOK, sender
<1>6. QueueInv'
  BY <1>1, <1>2, <1>4 DEF QueueInv, sender, outside
<1>7. \A o \in Logs : Waiting(o)' = Waiting(o)
  BY <1>2, <1>4 DEF Waiting
<1> QED
  BY <1>2, <1>5, <1>6, <1>7, Stutters DEF PipelineInv, outside

LEMMA EvictStep ==
    ASSUME PipelineInv, Evict
    PROVE  PipelineInv' /\ DeliveryStep
<1>1. TypeOK /\ QueueInv /\ faults' \in 0..MaxFaults
  BY Bounds DEF PipelineInv, TypeOK, Evict, Fault
<1>2. /\ queue' = << >> /\ dropped' = dropped \cup Queued
      /\ UNCHANGED <<redisUp, mongoUp, saved, sender, process, stored, dead, arrivals,
                     atRisk, gaveUp, restored>>
  BY DEF Evict
<1>3. /\ Queued' = {} /\ queue' \in Seq(Logs) /\ Distinct(queue')
      /\ Queued \in SUBSET Logs
  <2>1. Len(queue') = 0
    BY <1>2
  <2> QED
    BY <1>1, <1>2, <2>1, QueuedAre DEF TypeOK, Queued, Entries, Distinct
<1>4. TypeOK'
  BY <1>1, <1>2, <1>3 DEF TypeOK, sender, process
<1>5. QueueInv'
  BY <1>1, <1>2, <1>3 DEF QueueInv, sender, process
<1>6. DeliveryStep
  <2>1. ASSUME NEW o \in Logs
        PROVE  \/ Waiting(o)' = Waiting(o) + Back(o, {})
               \/ /\ o \in {} \cup Queued /\ Waiting(o) > 0
                  /\ Waiting(o)' = (Waiting(o) - 1) + Back(o, {})
    BY <1>2, <1>3 DEF Waiting, Back, process
  <2>2. restored' = Plus(restored, {})
    BY <1>1, <1>2, NothingBack DEF TypeOK
  <2>3. atRisk' = atRisk \cup {} /\ {} \in SUBSET Logs
    BY <1>2
  <2> QED
    BY <1>2, <1>3, <2>1, <2>2, <2>3, Crashes
<1> QED
  BY <1>4, <1>5, <1>6 DEF PipelineInv

\* What was pushed since the snapshot is lost, what was popped since is back, and a
\* worker in its loop loses what it holds.
LEMMA CrashStep ==
    ASSUME PipelineInv, RedisCrash
    PROVE  PipelineInv' /\ DeliveryStep
<1>1. TypeOK /\ QueueInv /\ faults' \in 0..MaxFaults
  BY Bounds DEF PipelineInv, TypeOK, RedisCrash, Fault
<1> DEFINE held == IF worker = "loop" THEN buffer ELSE {}
           gone == Queued \ Entries(saved)
           back == Entries(saved) \ Queued
<1>2. /\ redisUp' = FALSE /\ queue' = saved /\ dropped' = dropped \cup gone
      /\ restored' = Plus(restored, back)
      /\ UNCHANGED <<mongoUp, saved, sender, stored, dead, arrivals, gaveUp>>
  BY DEF RedisCrash
<1>3. /\ atRisk' = atRisk \cup held
      /\ \/ /\ worker = "loop" /\ worker' = "down" /\ buffer' = {} /\ applied' = {}
            /\ attempt' = 1 /\ due' = FALSE
         \/ worker # "loop" /\ UNCHANGED <<worker, buffer, applied, attempt, due>>
  BY DEF RedisCrash, Dies, process
<1>4. /\ Queued \in SUBSET Logs /\ Entries(saved) \in SUBSET Logs /\ buffer \in SUBSET Logs
      /\ Queued' = Entries(saved) /\ Entries(saved)' = Entries(saved)
  BY <1>1, <1>2, QueuedAre, SavedAre DEF TypeOK, Queued, Entries
<1>5. TypeOK'
  <2>1. restored' \in [Logs -> Nat]
    <3>1. restored \in [Logs -> Nat]
      BY <1>1 DEF TypeOK
    <3> QED
      BY <1>2, <3>1 DEF Plus
  <2>2. 1 \in 1..(MAX_RETRY_ATTEMPTS + 1)
    BY Bounds
  <2> HIDE DEF back
  <2> QED
    BY <1>1, <1>2, <1>3, <1>4, <2>1, <2>2 DEF TypeOK, sender
<1>6. QueueInv'
  <2>1. worker' # "flush" => buffer' = {} /\ applied' = {}
    <3>1. worker = "down" => buffer = {} /\ applied = {}
      BY <1>1 DEF QueueInv
    <3> QED
      BY <1>1, <1>3, <3>1 DEF TypeOK
  <2> QED
    BY <1>1, <1>2, <1>3, <1>4, <2>1 DEF QueueInv, sender, outside
<1>7. DeliveryStep
  <2>1. ASSUME NEW o \in Logs
        PROVE  \/ Waiting(o)' = Waiting(o) + Back(o, back)
               \/ /\ o \in held \cup gone /\ Waiting(o) > 0
                  /\ Waiting(o)' = (Waiting(o) - 1) + Back(o, back)
    <3>1. worker = "loop" => applied = {} /\ Queued \cap buffer = {}
      BY <1>1 DEF QueueInv
    <3> QED
      BY <1>3, <1>4, <3>1 DEF Waiting, Back
  <2>2. held \in SUBSET Logs /\ gone \in SUBSET Logs /\ back \in SUBSET Logs
    BY <1>4
  <2> HIDE DEF held, gone, back
  <2> QED
    BY <1>2, <1>3, <2>1, <2>2, Crashes
<1> QED
  BY <1>5, <1>6, <1>7 DEF PipelineInv

LEMMA PipelineStep == PipelineInv /\ [Next]_vars => PipelineInv' /\ DeliveryStep
  BY PushStep, PostStep, DeathSteps, IterateStep, FlushStep, IdleStep, EvictStep, CrashStep
     DEF Next, Work

LEMMA PipelineInvariant == Spec => []PipelineInv
  BY PipelineInit, PipelineStep, PTL DEF Spec
--------------------------------------------------------------------------------
\* Every variable keeps its type, in every reachable state.
THEOREM TypeCorrect == Spec => []TypeOK
<1>1. PipelineInv => TypeOK
  BY DEF PipelineInv
<1> QED
  BY <1>1, PipelineInvariant, PTL

\* The pipeline delivers as LogDelivery says: a copy that arrived, or that a snapshot of
\* Redis brought back, waits until it is stored, once, or until the worker dies with it in
\* its hands or Redis loses it with the list.
THEOREM PipelineImplementsDelivery == Spec => ImplementsDelivery
<1>1. Init => Delivery!Init
  <2> SUFFICES ASSUME Init PROVE Delivery!Init
    OBVIOUS
  <2>1. \A l \in Logs : Waiting(l) = 0
    BY DEF Init, Waiting, Queued, Entries
  <2> QED
    BY <2>1 DEF Init, Delivery!Init
<1>2. []PipelineInv /\ [][Next]_vars => [][Delivery!Next]_(Delivery!vars)
  <2>1. PipelineInv /\ [Next]_vars => [Delivery!Next]_(Delivery!vars)
    BY PipelineStep DEF DeliveryStep
  <2> QED
    BY <2>1, PTL
<1> QED
  BY <1>1, <1>2, PipelineInvariant, PTL DEF Spec, ImplementsDelivery, Delivery!Spec
--------------------------------------------------------------------------------
\* What follows for the accounts of the pipeline.

Balanced(l) == /\ stored[l] + Waiting(l) <= arrivals[l] + restored[l]
               /\ l \notin atRisk \cup dropped
                     => stored[l] + Waiting(l) >= arrivals[l] + restored[l]

Accounts == \A l \in Logs : Balanced(l)

\* No step of LogDelivery makes a copy, and only a crash loses one or has one back.
LEMMA AccountsStep ==
    ASSUME TypeOK, Accounts, DeliveryStep
    PROVE  Accounts'
<1> SUFFICES ASSUME NEW l \in Logs PROVE Balanced(l)'
  BY DEF Accounts
<1>1. /\ Balanced(l) /\ stored[l] \in Nat /\ arrivals[l] \in Nat /\ restored[l] \in Nat
      /\ Waiting(l) \in Nat /\ Waiting(l)' \in Nat
  BY WaitingType DEF Accounts, TypeOK, Waiting
<1>2. ASSUME NEW o \in Logs, Delivery!Accept(o) \/ Delivery!AcceptStored(o)
      PROVE  Balanced(l)'
  BY <1>1, <1>2 DEF Delivery!Accept, Delivery!AcceptStored, Delivery!More,
                    Delivery!failures, Balanced
<1>3. ASSUME NEW S \in SUBSET Logs, Delivery!Store(S)
      PROVE  Balanced(l)'
  BY <1>1, <1>3 DEF Delivery!Store, Delivery!More, Delivery!Less, Delivery!failures, Balanced
<1>4. ASSUME NEW held \in SUBSET Logs, NEW gone \in SUBSET Logs, NEW back \in SUBSET Logs,
             Delivery!Crash(held, gone, back)
      PROVE  Balanced(l)'
  <2>1. /\ UNCHANGED <<arrivals, stored>> /\ atRisk' = atRisk \cup held
        /\ dropped' = dropped \cup gone
        /\ restored'[l] = IF l \in back THEN restored[l] + 1 ELSE restored[l]
    BY <1>4 DEF Delivery!Crash, Delivery!More
  <2>2. PICK lost \in SUBSET Delivery!Waiting(held \cup gone) :
          [o \in Logs |-> Waiting(o)]'
            = Delivery!More(Delivery!Less([o \in Logs |-> Waiting(o)], lost), back)
    BY <1>4 DEF Delivery!Crash
  <2>3. Waiting(l)' = (IF l \in lost THEN Waiting(l) - 1 ELSE Waiting(l))
                        + (IF l \in back THEN 1 ELSE 0)
    <3>1. \A o \in Logs : Waiting(o) \in 0..2
      BY WaitingType
    <3> QED
      BY <2>2, <3>1 DEF Delivery!Less, Delivery!More
  <2>4. lost \subseteq held \cup gone
    BY <2>2 DEF Delivery!Waiting
  <2> QED
    BY <1>1, <2>1, <2>3, <2>4 DEF Balanced
<1>5. CASE UNCHANGED Delivery!vars
  BY <1>1, <1>5 DEF Delivery!vars, Delivery!failures, Balanced
<1> QED
  BY <1>2, <1>3, <1>4, <1>5 DEF DeliveryStep, Delivery!Next

LEMMA AccountsInvariant == Spec => []Accounts
<1>1. Init => Accounts
  <2> SUFFICES ASSUME Init PROVE Accounts
    OBVIOUS
  <2>1. \A l \in Logs : Waiting(l) = 0
    BY DEF Init, Waiting, Queued, Entries
  <2> QED
    BY <2>1 DEF Init, Accounts, Balanced
<1>2. PipelineInv /\ Accounts /\ [Next]_vars => Accounts'
  BY PipelineStep, AccountsStep DEF PipelineInv
<1> QED
  BY <1>1, <1>2, PipelineInvariant, PTL DEF Spec

LEMMA SenderStep ==
    ASSUME PipelineInv, SenderInv, [Next]_vars
    PROVE  SenderInv'
<1>1. /\ stage \in [Logs -> {"new", "primary", "backup", "done", "printed"}]
      /\ arrivals \in [Logs -> Nat]
  BY DEF PipelineInv, TypeOK
<1>2. ASSUME NEW l \in Logs, arrivals' = Plus(arrivals, {l})
      PROVE  \A o \in Logs : arrivals'[o] = IF o = l THEN arrivals[o] + 1 ELSE arrivals[o]
  <2>1. arrivals' = [o \in Logs |-> IF o \in {l} THEN arrivals[o] + 1 ELSE arrivals[o]]
    BY <1>2 DEF Plus
  <2> QED
    BY <2>1
<1>3. ASSUME NEW l \in Logs, Push(l) PROVE SenderInv'
  <2>1. /\ arrivals'[l] \in {arrivals[l], arrivals[l] + 1}
        /\ \A o \in Logs : o # l => arrivals'[o] = arrivals[o]
    <3>1. CASE Pushed(l)
      <4>1. arrivals' = Plus(arrivals, {l})
        BY <3>1 DEF Pushed
      <4> QED
        BY <1>2, <4>1
    <3>2. CASE UNCHANGED arrivals
      BY <3>2
    <3> QED
      BY <1>3, <3>1, <3>2 DEF Push
  <2>2. /\ stage[l] = "new" /\ stage'[l] \in {"done", "primary"}
        /\ \A o \in Logs : o # l => stage'[o] = stage[o]
    BY <1>1, <1>3 DEF Push
  <2>3. arrivals[l] = 0
    BY <2>2 DEF SenderInv
  <2>4. arrivals'[l] <= 1 /\ arrivals'[l] <= 3
    BY <2>1, <2>3
  <2> QED
    BY <1>1, <2>1, <2>2, <2>4 DEF SenderInv
<1>4. ASSUME NEW l \in Logs, Post(l) PROVE SenderInv'
  <2>1. /\ arrivals'[l] \in {arrivals[l], arrivals[l] + 1}
        /\ \A o \in Logs : o # l => arrivals'[o] = arrivals[o]
    <3>1. CASE Ingest(l)
      BY <1>2, <3>1 DEF Ingest
    <3>2. CASE UNCHANGED arrivals
      BY <3>2
    <3> QED
      BY <1>4, <3>1, <3>2 DEF Post
  <2>2. /\ stage[l] \in {"primary", "backup"}
        /\ stage'[l] \in {"done", NextStage(stage[l])}
        /\ \A o \in Logs : o # l => stage'[o] = stage[o]
    BY <1>1, <1>4 DEF Post
  <2>3. arrivals[l] \in Nat /\ (stage[l] = "primary" => arrivals[l] <= 1)
        /\ (stage[l] = "backup" => arrivals[l] <= 2)
    BY <1>1 DEF SenderInv
  <2>4. /\ arrivals'[l] <= 3 /\ stage'[l] \notin {"new", "primary"}
        /\ stage'[l] = "backup" => arrivals'[l] <= 2
    BY <2>1, <2>2, <2>3 DEF NextStage
  <2> QED
    BY <1>1, <2>1, <2>2, <2>4 DEF SenderInv
<1>5. CASE UNCHANGED <<stage, arrivals>>
  BY <1>5 DEF SenderInv
<1>6. (Work \/ PopLost \/ FlushIntervalPasses \/ Kill \/ Outage \/ Save \/ Evict
       \/ RedisCrash \/ UNCHANGED vars) => UNCHANGED <<stage, arrivals>>
  BY DEF Work, StartWorker, Iterate, RedisError, Bulk, BulkFails, GiveUp, PopLost,
         FlushIntervalPasses, Kill, Outage, Save, Evict, RedisCrash, vars, sender
<1> QED
  BY <1>3, <1>4, <1>5, <1>6 DEF Next

\* flush_batch and send_log: whatever part of a batch an attempt inserts before it fails,
\* and however many attempts follow, MongoDB holds at most one document per push or post
\* that arrived and per copy that a snapshot of Redis brought back; at most three arrive.
THEOREM RetriesDoNotCopy == Spec => []NoCopyFromRetries
<1>1. Init => SenderInv
  BY DEF Init, SenderInv
<1>2. PipelineInv /\ SenderInv /\ [Next]_vars => SenderInv'
  BY SenderStep
<1>3. Accounts /\ SenderInv => NoCopyFromRetries
  BY DEF Accounts, Balanced, SenderInv, NoCopyFromRetries
<1> QED
  BY <1>1, <1>2, <1>3, AccountsInvariant, PipelineInvariant, PTL DEF Spec

\* send_log and worker_loop: every push or post of an entry is waiting or has its document
\* unless the worker died with the entry or Redis lost the list, for any number of faults.
THEOREM OnlyCrashesLose == Spec => []LossHasACause
<1>1. Accounts => LossHasACause
  BY DEF Accounts, Balanced, LossHasACause
<1> QED
  BY <1>1, AccountsInvariant, PTL
================================================================================
