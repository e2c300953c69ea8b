--------------------------- MODULE LogRecordsProofs ---------------------------
(***************************************************************************)
(* Theorems about LogRecords, for any processes, threads and clocks.       *)
(***************************************************************************)
EXTENDS LogRecords, FiniteSetTheorems, TLAPS

Record == [timestamp : Int, fallback : BOOLEAN, before : Nat]

\* A time that came from the time service has passed.
StampsHavePassed ==
    \A n \in 1..Len(records) : ~records[n].fallback => records[n].timestamp <= now

\* What a thread was answered is later than every synced record it follows.
AnswersAreLater ==
    \A t \in Threads : pc[t] = "answered" =>
        \A n \in 1..before[t] : ~records[n].fallback => records[n].timestamp <= reply[t]

\* The total of an overview under way was true when it was counted.
TotalIsPast == total # None => total <= Documents

RecordsInv == /\ TypeOK /\ StampsHavePassed /\ AnswersAreLater /\ SyncedRecordsInOrder
              /\ TotalIsPast /\ OverviewNeverFlatters
--------------------------------------------------------------------------------
LEMMA Clocks == ASSUME TypeOK, NEW t \in Threads PROVE LocalUtc(t) \in Int
  BY RecordsAssumption DEF TypeOK, LocalUtc

\* The documents are the errors and the others.
LEMMA Counts ==
    ASSUME stored \in [Statuses -> Nat]
    PROVE  /\ NotErrors \in Nat /\ stored["ERROR"] \in Nat /\ Documents \in Nat
           /\ Documents = NotErrors + stored["ERROR"]
<1>1. /\ stored["SUCCESS"] \in Nat /\ stored["INFO"] \in Nat
      /\ stored["WARNING"] \in Nat /\ stored["ERROR"] \in Nat
  BY DEF Statuses
<1> QED
  BY <1>1 DEF NotErrors, Documents

LEMMA CountsKept == stored' = stored => Documents' = Documents /\ NotErrors' = NotErrors
  BY DEF Documents, NotErrors

\* A record that is stored is counted once.
LEMMA Stored ==
    ASSUME stored \in [Statuses -> Nat], Insert
    PROVE  /\ stored' \in [Statuses -> Nat]
           /\ Documents' = Documents + 1 /\ Documents < Len(records)
           /\ NotErrors' \in Nat /\ NotErrors' >= NotErrors
<1>1. /\ stored["SUCCESS"] \in Nat /\ stored["INFO"] \in Nat
      /\ stored["WARNING"] \in Nat /\ stored["ERROR"] \in Nat
  BY DEF Statuses
<1>2. PICK status \in Statuses : stored' = [stored EXCEPT ![status] = @ + 1]
  BY DEF Insert
<1>3. stored' \in [Statuses -> Nat] /\ Documents < Len(records)
  BY <1>2 DEF Insert
<1>4. CASE status = "ERROR"
  <2>1. /\ stored'["SUCCESS"] = stored["SUCCESS"] /\ stored'["INFO"] = stored["INFO"]
        /\ stored'["WARNING"] = stored["WARNING"] /\ stored'["ERROR"] = stored["ERROR"] + 1
    BY <1>2, <1>4 DEF Statuses
  <2>2. NotErrors' = NotErrors /\ NotErrors \in Nat
    BY <1>1, <2>1 DEF NotErrors
  <2> QED
    BY <1>1, <1>3, <2>1, <2>2 DEF Documents
<1>5. CASE status # "ERROR"
  <2>1. /\ stored'["SUCCESS"] + stored'["INFO"] + stored'["WARNING"]
               = stored["SUCCESS"] + stored["INFO"] + stored["WARNING"] + 1
        /\ stored'["ERROR"] = stored["ERROR"]
    BY <1>1, <1>2, <1>5 DEF Statuses
  <2>2. NotErrors' = NotErrors + 1 /\ NotErrors \in Nat
    BY <1>1, <2>1 DEF NotErrors
  <2>3. Documents' = NotErrors + 1 + stored["ERROR"]
    BY <2>1, <2>2 DEF Documents
  <2>4. Documents' = Documents + 1
    BY <1>1, <2>2, <2>3 DEF Documents
  <2> QED
    BY <1>3, <2>2, <2>4
<1> QED
  BY <1>4, <1>5

\* Steps that create no record keep the types of everything about their creation.
LEMMA StampingKept ==
    ASSUME TypeOK, UNCHANGED <<now, stamping>>,
           stored' \in [Statuses -> Nat],
           Documents' <= Len(records),
           total' \in Nat \cup {None}, overview' \in Nat
    PROVE  TypeOK'
<1>1. /\ now' = now /\ available' = available /\ pc' = pc /\ reply' = reply
      /\ before' = before /\ records' = records /\ failures' = failures
  BY DEF stamping
<1> QED
  BY <1>1 DEF TypeOK

LEMMA RecordsInit == Init => RecordsInv
  BY RecordsAssumption DEF Init, RecordsInv, TypeOK, StampsHavePassed, AnswersAreLater,
     SyncedRecordsInOrder, TotalIsPast, OverviewNeverFlatters, None, Statuses, Documents,
     NotErrors

\* A completed record comes last, and leaves the others where they are.
LEMMA Completed ==
    ASSUME TypeOK, NEW t \in Threads, NEW time \in Int, NEW fallback \in BOOLEAN,
           Completes(t, time, fallback)
    PROVE  /\ Len(records') = Len(records) + 1
           /\ \A n \in 1..Len(records) : records'[n] = records[n]
           /\ records'[Len(records) + 1] =
                  [timestamp |-> time, fallback |-> fallback, before |-> before[t]]
           /\ records' \in Seq(Record)
           /\ \A n \in 1..Len(records') : records'[n].before < n
           /\ pc' = [pc EXCEPT ![t] = "idle"]
           /\ reply' = [reply EXCEPT ![t] = 0]
           /\ before' = [before EXCEPT ![t] = 0]
<1> DEFINE r == [timestamp |-> time, fallback |-> fallback, before |-> before[t]]
<1>1. /\ records \in Seq(Record) /\ before[t] \in 0..Len(records)
      /\ \A n \in 1..Len(records) : records[n].before < n
  BY DEF TypeOK, Record
<1>2. r \in Record /\ records' = Append(records, r)
  BY <1>1 DEF Completes, Record
<1> HIDE DEF r
<1>3. /\ Len(records') = Len(records) + 1 /\ records' \in Seq(Record)
      /\ \A n \in 1..Len(records) : records'[n] = records[n]
      /\ records'[Len(records) + 1] = r
  BY <1>1, <1>2
<1>4. \A n \in 1..Len(records') : records'[n].before < n
  BY <1>1, <1>3 DEF r
<1> QED
  BY <1>3, <1>4 DEF Completes, r

\* A record keeps the order if a time that is not a fallback is the thread's reply.
LEMMA CompletedKeepsOrder ==
    ASSUME RecordsInv, NEW t \in Threads, NEW time \in Int, NEW fallback \in BOOLEAN,
           Completes(t, time, fallback), now' = now,
           ~fallback => pc[t] = "answered" /\ time = reply[t]
    PROVE  StampsHavePassed' /\ AnswersAreLater' /\ SyncedRecordsInOrder'
<1>1. TypeOK
  BY DEF RecordsInv
<1>2. /\ Len(records') = Len(records) + 1
      /\ \A n \in 1..Len(records) : records'[n] = records[n]
      /\ records'[Len(records) + 1] =
             [timestamp |-> time, fallback |-> fallback, before |-> before[t]]
      /\ pc' = [pc EXCEPT ![t] = "idle"] /\ reply' = [reply EXCEPT ![t] = 0]
      /\ before' = [before EXCEPT ![t] = 0]
  BY <1>1, Completed
<1>3. /\ Len(records) \in Nat /\ now \in Nat
      /\ before \in [Threads -> 0..Len(records)] /\ reply \in [Threads -> 0..now]
      /\ \A n \in 1..Len(records) : records[n] \in Record /\ records[n].before < n
      /\ pc \in [Threads -> {"idle", "asks", "answered", "alone"}]
  <2>1. records \in Seq(Record) /\ now \in Nat
    BY <1>1, RecordsAssumption DEF TypeOK, Record
  <2>2. Len(records) \in Nat /\ \A n \in 1..Len(records) : records[n] \in Record
    BY <2>1
  <2> QED
    BY <1>1, <2>1, <2>2 DEF TypeOK
<1>4. StampsHavePassed'
  <2> SUFFICES ASSUME NEW n \in 1..Len(records'), ~records'[n].fallback
               PROVE  records'[n].timestamp <= now'
    BY DEF StampsHavePassed
  <2>1. CASE n \in 1..Len(records)
    BY <1>2, <2>1 DEF RecordsInv, StampsHavePassed
  <2>2. CASE n = Len(records) + 1
    BY <1>2, <1>3, <2>2
  <2> QED
    BY <1>2, <1>3, <2>1, <2>2
<1>5. AnswersAreLater'
  <2> SUFFICES ASSUME NEW o \in Threads, pc'[o] = "answered",
                      NEW n \in 1..before'[o], ~records'[n].fallback
               PROVE  records'[n].timestamp <= reply'[o]
    BY DEF AnswersAreLater
  <2>1. o # t
    BY <1>2, <1>3
  <2>2. pc[o] = "answered" /\ before'[o] = before[o] /\ reply'[o] = reply[o]
    BY <1>2, <1>3, <2>1
  <2>3. n \in 1..Len(records) /\ records'[n] = records[n]
    BY <1>2, <1>3, <2>2
  <2> QED
    BY <2>2, <2>3 DEF RecordsInv, AnswersAreLater
<1>6. SyncedRecordsInOrder'
  <2> SUFFICES ASSUME NEW later \in 1..Len(records'),
                      NEW earlier \in 1..records'[later].before,
                      ~records'[earlier].fallback, ~records'[later].fallback
               PROVE  records'[earlier].timestamp <= records'[later].timestamp
    BY DEF SyncedRecordsInOrder
  <2>1. CASE later \in 1..Len(records)
    <3>1. earlier \in 1..Len(records)
      BY <1>2, <1>3, <2>1 DEF Record
    <3> QED
      BY <1>2, <2>1, <3>1 DEF RecordsInv, SyncedRecordsInOrder
  <2>2. CASE later = Len(records) + 1
    <3>1. earlier \in 1..before[t] /\ earlier \in 1..Len(records)
      BY <1>2, <1>3, <2>2
    <3> QED
      BY <1>2, <2>2, <3>1 DEF RecordsInv, AnswersAreLater
  <2> QED
    BY <1>2, <1>3, <2>1, <2>2
<1> QED
  BY <1>4, <1>5, <1>6

LEMMA CompletedStep ==
    ASSUME RecordsInv, NEW t \in Threads, NEW time \in Int, NEW fallback \in BOOLEAN,
           Completes(t, time, fallback), UNCHANGED <<now, stored, reading>>,
           ~fallback => pc[t] = "answered" /\ time = reply[t],
           available' \in [Processes -> BOOLEAN], failures' \in [Processes -> Nat],
           \A p \in Processes : available'[p] <=> failures'[p] = 0
    PROVE  RecordsInv'
<1>1. TypeOK
  BY DEF RecordsInv
<1>2. /\ Len(records) \in Nat /\ now \in Nat /\ now \in 0..MaxTime
      /\ Documents \in Nat /\ Documents <= Len(records)
  BY <1>1, RecordsAssumption, Counts DEF TypeOK
<1>3. /\ Len(records') = Len(records) + 1 /\ records' \in Seq(Record)
      /\ \A n \in 1..Len(records') : records'[n].before < n
      /\ pc' = [pc EXCEPT ![t] = "idle"] /\ reply' = [reply EXCEPT ![t] = 0]
      /\ before' = [before EXCEPT ![t] = 0]
  <2>1. /\ Len(records') = Len(records) + 1 /\ records' \in Seq(Record)
        /\ \A n \in 1..Len(records') : records'[n].before < n
    BY <1>1, Completed
  <2>2. /\ pc' = [pc EXCEPT ![t] = "idle"] /\ reply' = [reply EXCEPT ![t] = 0]
        /\ before' = [before EXCEPT ![t] = 0]
    BY DEF Completes
  <2> QED
    BY <2>1, <2>2
<1>4. /\ now' = now /\ stored' = stored /\ total' = total /\ overview' = overview
      /\ Documents' = Documents /\ NotErrors' = NotErrors
  BY CountsKept DEF reading
<1>5. StampsHavePassed' /\ AnswersAreLater' /\ SyncedRecordsInOrder'
  BY <1>4, CompletedKeepsOrder
<1>6. TypeOK'
  <2>1. /\ pc' \in [Threads -> {"idle", "asks", "answered", "alone"}]
        /\ reply' \in [Threads -> 0..now'] /\ before' \in [Threads -> 0..Len(records')]
    BY <1>1, <1>2, <1>3, <1>4 DEF TypeOK
  <2>2. Documents' <= Len(records')
    BY <1>2, <1>3, <1>4
  <2> QED
    BY <1>1, <1>3, <1>4, <2>1, <2>2 DEF TypeOK, Record
<1>7. TotalIsPast' /\ OverviewNeverFlatters'
  BY <1>4 DEF RecordsInv, TotalIsPast, OverviewNeverFlatters
<1> QED
  BY <1>5, <1>6, <1>7 DEF RecordsInv

LEMMA RecordsStep == RecordsInv /\ [Next]_vars => RecordsInv'
<1> SUFFICES ASSUME RecordsInv, [Next]_vars PROVE RecordsInv'
  OBVIOUS
<1>1. TypeOK
  BY DEF RecordsInv
<1>2. /\ Len(records) \in Nat /\ now \in Nat /\ now \in 0..MaxTime
      /\ stored \in [Statuses -> Nat] /\ NotErrors \in Nat /\ stored["ERROR"] \in Nat
      /\ Documents = NotErrors + stored["ERROR"] /\ Documents <= Len(records)
  BY <1>1, RecordsAssumption, Counts DEF TypeOK
<1>4. ASSUME NEW t \in Threads, CreateLog(t) PROVE RecordsInv'
  <2>1. LocalUtc(t) \in Int /\ reply[t] \in Int
    BY <1>1, <1>2, Clocks DEF TypeOK
  <2>2. CASE Begin(t)
    <3>1. /\ UNCHANGED <<now, available, reply, records, failures, stored, reading>>
          /\ before' = [before EXCEPT ![t] = Len(records)]
          /\ pc[t] = "idle" /\ pc'[t] # "answered"
          /\ pc' \in [Threads -> {"idle", "asks", "answered", "alone"}]
          /\ \A o \in Threads : o # t => pc'[o] = pc[o] /\ before'[o] = before[o]
      BY <1>1, <2>2 DEF Begin, TypeOK
    <3>2. TypeOK'
      BY <1>1, <1>2, <3>1, CountsKept DEF TypeOK, reading
    <3>3. AnswersAreLater'
      BY <3>1 DEF RecordsInv, AnswersAreLater
    <3> QED
      BY <3>1, <3>2, <3>3, CountsKept DEF RecordsInv, StampsHavePassed, SyncedRecordsInOrder,
         TotalIsPast, OverviewNeverFlatters, reading
  <2>3. CASE GetTime(t)
    <3>1. /\ UNCHANGED <<now, available, before, records, failures, stored, reading>>
          /\ pc' = [pc EXCEPT ![t] = "answered"] /\ reply' = [reply EXCEPT ![t] = now]
      BY <2>3 DEF GetTime
    <3>2. TypeOK'
      BY <1>1, <1>2, <3>1, CountsKept DEF TypeOK, reading
    <3>3. ASSUME NEW o \in Threads, pc'[o] = "answered", NEW n \in 1..before[o],
                 ~records[n].fallback
          PROVE  records[n].timestamp <= reply'[o]
      <4>1. CASE o = t
        <5>1. n \in 1..Len(records) /\ reply'[o] = now
          BY <1>1, <1>2, <3>1, <4>1 DEF TypeOK
        <5> QED
          BY <3>3, <5>1 DEF RecordsInv, StampsHavePassed
      <4>2. CASE o # t
        BY <1>1, <3>1, <3>3, <4>2 DEF TypeOK, RecordsInv, AnswersAreLater
      <4> QED
        BY <4>1, <4>2
    <3>4. AnswersAreLater'
      BY <3>1, <3>3 DEF AnswersAreLater
    <3> QED
      BY <3>1, <3>2, <3>4, CountsKept DEF RecordsInv, StampsHavePassed, SyncedRecordsInOrder,
         TotalIsPast, OverviewNeverFlatters, reading
  <2>4. CASE UseReply(t)
    BY <1>1, <2>1, <2>4, CompletedStep DEF UseReply, TypeOK
  <2>5. CASE Refused(t) \/ GoAlone(t)
    BY <1>1, <2>1, <2>5, CompletedStep DEF Refused, GoAlone, TypeOK
  <2>6. CASE Raises(t)
    <3>1. Home[t] \in Processes
      BY RecordsAssumption
    <3>2. /\ available' = [available EXCEPT ![Home[t]] = FALSE]
          /\ failures' = [failures EXCEPT ![Home[t]] = @ + 1]
      BY <2>6 DEF Raises
    <3>3. /\ available' \in [Processes -> BOOLEAN] /\ failures' \in [Processes -> Nat]
          /\ \A p \in Processes : available'[p] <=> failures'[p] = 0
      BY <1>1, <3>1, <3>2 DEF TypeOK
    <3> QED
      BY <2>1, <2>6, <3>3, CompletedStep DEF Raises
  <2> QED
    BY <1>4, <2>2, <2>3, <2>4, <2>5, <2>6 DEF CreateLog
<1>5. CASE Insert
  <2>1. /\ UNCHANGED <<now, stamping, reading>>
        /\ stored' \in [Statuses -> Nat]
        /\ Documents' = Documents + 1
        /\ Documents < Len(records)
        /\ NotErrors' >= NotErrors /\ NotErrors' \in Nat
    BY <1>2, <1>5, Stored DEF Insert
  <2>2. TypeOK'
    <3>1. /\ total' \in Nat \cup {None} /\ overview' \in Nat
          /\ Documents' <= Len(records)
      BY <1>1, <1>2, <2>1 DEF TypeOK, reading
    <3> QED
      BY <1>1, <2>1, <3>1, StampingKept
  <2>3. TotalIsPast'
    BY <1>1, <1>2, <2>1 DEF RecordsInv, TotalIsPast, TypeOK, reading
  <2>4. OverviewNeverFlatters'
    BY <1>1, <1>2, <2>1 DEF RecordsInv, OverviewNeverFlatters, TypeOK, reading
  <2> QED
    BY <2>1, <2>2, <2>3, <2>4 DEF RecordsInv, StampsHavePassed, AnswersAreLater,
       SyncedRecordsInOrder, stamping
<1>6. CASE GetOverview
  <2>1. UNCHANGED <<now, stamping, stored>>
    BY <1>6 DEF GetOverview, CountTotal, CountErrors
  <2>2. /\ total' \in Nat \cup {None} /\ overview' \in Nat
        /\ TotalIsPast' /\ OverviewNeverFlatters'
    <3>1. CASE CountTotal
      <4>1. total' = Documents /\ overview' = overview /\ stored' = stored
        BY <2>1, <3>1 DEF CountTotal
      <4> QED
        BY <1>1, <1>2, <4>1, CountsKept DEF RecordsInv, TotalIsPast, OverviewNeverFlatters, TypeOK
    <3>2. CASE CountErrors
      <4>1. /\ total # None /\ total \in Nat /\ total <= Documents
            /\ overview' = Difference(total, stored["ERROR"]) /\ total' = None
            /\ stored' = stored
        BY <1>1, <2>1, <3>2 DEF CountErrors, RecordsInv, TotalIsPast, TypeOK
      <4> QED
        BY <1>2, <4>1, CountsKept DEF Difference, TotalIsPast, OverviewNeverFlatters, None
    <3> QED
      BY <1>6, <3>1, <3>2 DEF GetOverview
  <2>3. TypeOK'
    <3>1. /\ stored' \in [Statuses -> Nat]
          /\ Documents' <= Len(records)
      <4>1. stored' = stored
        BY <2>1
      <4> QED
        BY <1>1, <4>1, CountsKept DEF TypeOK
    <3>2. UNCHANGED <<now, stamping>>
      BY <2>1
    <3> QED
      BY <1>1, <2>2, <3>1, <3>2, StampingKept
  <2> QED
    BY <2>1, <2>2, <2>3 DEF RecordsInv, StampsHavePassed, AnswersAreLater,
       SyncedRecordsInOrder, stamping
<1>7. CASE Tick
  <2>1. now' = now + 1 /\ now' \in 0..MaxTime /\ UNCHANGED <<stamping, stored, reading>>
    BY <1>2, <1>7, RecordsAssumption DEF Tick
  <2>2. TypeOK'
    <3>1. 0..now \subseteq 0..now' /\ reply \in [Threads -> 0..now]
      BY <1>1, <1>2, <2>1 DEF TypeOK
    <3>2. reply' \in [Threads -> 0..now']
      BY <2>1, <3>1 DEF stamping
    <3>3. /\ available' = available /\ pc' = pc /\ before' = before /\ records' = records
          /\ failures' = failures /\ stored' = stored /\ total' = total
          /\ overview' = overview
      BY <2>1 DEF stamping, reading
    <3> QED
      BY <1>1, <2>1, <3>2, <3>3, CountsKept DEF TypeOK
  <2>3. StampsHavePassed'
    <3>1. \A n \in 1..Len(records) : records[n].timestamp \in Int
      <4>1. records \in Seq(Record)
        BY <1>1 DEF TypeOK, Record
      <4>2. \A n \in 1..Len(records) : records[n] \in Record
        BY <4>1
      <4> QED
        BY <4>2 DEF Record
    <3> QED
      BY <1>2, <2>1, <3>1 DEF RecordsInv, StampsHavePassed, stamping
  <2> QED
    BY <2>1, <2>2, <2>3, CountsKept DEF RecordsInv, AnswersAreLater, SyncedRecordsInOrder,
       TotalIsPast, OverviewNeverFlatters, stamping, reading
<1>8. CASE UNCHANGED vars
  BY <1>1, <1>8, CountsKept DEF RecordsInv, TypeOK, StampsHavePassed, AnswersAreLater,
     SyncedRecordsInOrder, TotalIsPast, OverviewNeverFlatters, vars, stamping, reading
<1> QED
  BY <1>4, <1>5, <1>6, <1>7, <1>8 DEF Next

LEMMA RecordsInvariant == Spec => []RecordsInv
  BY RecordsInit, RecordsStep, PTL DEF Spec

\* Every variable keeps its type, and a process asks for the time exactly as long as no
\* request of its own has raised.
THEOREM TypeCorrect == Spec => []TypeOK
<1>1. RecordsInv => TypeOK
  BY DEF RecordsInv
<1> QED
  BY <1>1, RecordsInvariant, PTL

\* Whatever the clocks of the processes, records stamped by the time service sort in the
\* order in which one was complete before the other was begun.
THEOREM SyncedRecordsSort == Spec => []SyncedRecordsInOrder
<1>1. RecordsInv => SyncedRecordsInOrder
  BY DEF RecordsInv
<1> QED
  BY <1>1, RecordsInvariant, PTL

\* The overview never counts an error as a success: however many records are stored
\* between its two queries, it shows no more than the records that are not errors.
THEOREM OverviewIsModest == Spec => []OverviewNeverFlatters
<1>1. RecordsInv => OverviewNeverFlatters
  BY DEF RecordsInv
<1> QED
  BY <1>1, RecordsInvariant, PTL
--------------------------------------------------------------------------------
\* Timeouts: each request of a process that is under way may still raise, and none is
\* sent once one has.

Of(p)      == {t \in Threads : Home[t] = p}
Waiting(p) == {t \in Of(p) : pc[t] \in {"asks", "answered"}}

TimeoutsOK == \A p \in Processes : failures[p] + Cardinality(Waiting(p)) <= Cardinality(Of(p))

LEMMA Finite ==
    ASSUME NEW p \in Processes
    PROVE  /\ IsFiniteSet(Of(p)) /\ Cardinality(Of(p)) \in Nat
           /\ IsFiniteSet(Waiting(p)) /\ Cardinality(Waiting(p)) \in Nat
           /\ Cardinality(Waiting(p)) <= Cardinality(Of(p))
<1>1. Of(p) \in SUBSET Threads /\ Waiting(p) \in SUBSET Of(p)
  BY DEF Of, Waiting
<1>2. IsFiniteSet(Of(p))
  BY <1>1, RecordsAssumption, FS_Subset
<1>3. IsFiniteSet(Waiting(p)) /\ Cardinality(Waiting(p)) <= Cardinality(Of(p))
  BY <1>1, <1>2, FS_Subset
<1> QED
  BY <1>2, <1>3, FS_CardinalityType

\* A thread that stops waiting makes room for one failure of its process.
LEMMA OneLessWaits ==
    ASSUME TypeOK, TimeoutsOK, NEW t \in Threads, pc[t] \in {"asks", "answered"},
           pc' = [pc EXCEPT ![t] = "idle"],
           failures' \in {failures, [failures EXCEPT ![Home[t]] = @ + 1]}
    PROVE  TimeoutsOK'
<1> SUFFICES ASSUME NEW p \in Processes
             PROVE  failures'[p] + Cardinality(Waiting(p)') <= Cardinality(Of(p))
  BY DEF TimeoutsOK, Of
<1>1. failures \in [Processes -> Nat] /\ Home[t] \in Processes
  BY RecordsAssumption DEF TypeOK
<1>2. Waiting(p)' = Waiting(p) \ {t}
  BY DEF Waiting, Of, TypeOK
<1>3. CASE Home[t] = p
  <2>1. t \in Waiting(p)
    BY <1>3 DEF Waiting, Of
  <2>2. Cardinality(Waiting(p)') = Cardinality(Waiting(p)) - 1
    BY <1>2, <2>1, Finite, FS_RemoveElement
  <2> QED
    BY <1>1, <1>3, <2>2, Finite DEF TimeoutsOK
<1>4. CASE Home[t] # p
  <2>1. Waiting(p)' = Waiting(p) /\ failures'[p] = failures[p]
    BY <1>1, <1>2, <1>4 DEF Waiting, Of
  <2> QED
    BY <2>1 DEF TimeoutsOK
<1> QED
  BY <1>3, <1>4

LEMMA TimeoutsStep == TypeOK /\ TimeoutsOK /\ [Next]_vars => TimeoutsOK'
<1> SUFFICES ASSUME TypeOK, TimeoutsOK, [Next]_vars PROVE TimeoutsOK'
  OBVIOUS
<1>1. ASSUME failures' = failures, NEW t \in Threads,
             \/ pc' = [pc EXCEPT ![t] = "alone"] /\ pc[t] = "idle"
             \/ pc' = [pc EXCEPT ![t] = "idle"] /\ pc[t] = "alone"
             \/ pc' = [pc EXCEPT ![t] = "answered"] /\ pc[t] = "asks"
      PROVE  TimeoutsOK'
  <2>1. \A p \in Processes : Waiting(p)' = Waiting(p)
    BY <1>1 DEF Waiting, Of, TypeOK
  <2> QED
    BY <1>1, <2>1 DEF TimeoutsOK, Of
<1>2. ASSUME NEW t \in Threads, CreateLog(t) PROVE TimeoutsOK'
  <2>1. CASE Begin(t) /\ available[Home[t]]
    <3>1. /\ pc' = [pc EXCEPT ![t] = "asks"] /\ failures' = failures
          /\ Home[t] \in Processes /\ failures[Home[t]] = 0
      BY <2>1, RecordsAssumption DEF Begin, TypeOK
    <3>2. ASSUME NEW p \in Processes
          PROVE  failures'[p] + Cardinality(Waiting(p)') <= Cardinality(Of(p))
      <4>1. CASE p = Home[t]
        <5>1. Waiting(p)' \in SUBSET Of(p)
          BY DEF Waiting, Of
        <5>2. Cardinality(Waiting(p)') <= Cardinality(Of(p)) /\ Cardinality(Waiting(p)') \in Nat
          BY <5>1, Finite, FS_Subset, FS_CardinalityType
        <5> QED
          BY <3>1, <4>1, <5>2
      <4>2. CASE p # Home[t]
        <5>1. Waiting(p)' = Waiting(p)
          BY <3>1, <4>2 DEF Waiting, Of, TypeOK
        <5> QED
          BY <3>1, <5>1 DEF TimeoutsOK
      <4> QED
        BY <4>1, <4>2
    <3> QED
      BY <3>2 DEF TimeoutsOK, Of
  <2>2. CASE Begin(t) /\ ~available[Home[t]]
    <3>1. pc' = [pc EXCEPT ![t] = "alone"] /\ pc[t] = "idle" /\ failures' = failures
      BY <2>2 DEF Begin
    <3> QED
      BY <1>1, <3>1
  <2>3. CASE GetTime(t) \/ GoAlone(t)
    BY <1>1, <2>3 DEF GetTime, GoAlone, Completes
  <2>4. CASE UseReply(t) \/ Refused(t) \/ Raises(t)
    BY <2>4, OneLessWaits DEF UseReply, Refused, Raises, Completes
  <2> QED
    BY <1>2, <2>1, <2>2, <2>3, <2>4 DEF CreateLog
<1>3. CASE Insert \/ GetOverview \/ Tick \/ UNCHANGED vars
  <2>1. UNCHANGED <<pc, failures>>
    BY <1>3 DEF Insert, GetOverview, CountTotal, CountErrors, Tick, vars, stamping
  <2> QED
    BY <2>1 DEF TimeoutsOK, Waiting, Of
<1> QED
  BY <1>2, <1>3 DEF Next

\* However many threads a process has and however their requests overlap, no more of
\* them raise than it has threads.
THEOREM TimeoutsAreBounded == Spec => []TimeoutsAreNotRepeated
<1>1. Init => TimeoutsOK
  <2> SUFFICES ASSUME Init, NEW p \in Processes
               PROVE  failures[p] + Cardinality(Waiting(p)) <= Cardinality(Of(p))
    BY DEF TimeoutsOK
  <2> QED
    BY Finite DEF Init
<1>2. TypeOK /\ TimeoutsOK => TimeoutsAreNotRepeated
  <2> SUFFICES ASSUME TypeOK, TimeoutsOK, NEW p \in Processes
               PROVE  failures[p] <= Cardinality(Of(p))
    BY DEF TimeoutsAreNotRepeated, Of
  <2> QED
    BY Finite DEF TimeoutsOK, TypeOK
<1> QED
  BY <1>1, <1>2, TimeoutsStep, TypeCorrect, PTL DEF Spec
================================================================================
