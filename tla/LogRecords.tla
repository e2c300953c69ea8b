------------------------------- MODULE LogRecords -------------------------------
(***************************************************************************)
(* The life of a log record outside the pipeline: create_log stamps it     *)
(* with the time service's clock or, after a failure, with the clock of    *)
(* its own process; it is stored some time later, in any order; and the    *)
(* overview of the dashboard counts what is stored by two queries.         *)
(*                                                                         *)
(* The threads of a process share _time_sync_available.  The pipeline is   *)
(* LogPipeline: here a record is stored at most once.                      *)
(***************************************************************************)
EXTENDS Integers, Sequences, FiniteSets

CONSTANTS
    Processes,
    Threads,
    Home,        \* the process of each thread
    Skew,        \* how far the clock of each process is ahead of the time service's
    MaxTime,     \* bound of the clock
    MaxRecords,  \* bound: records created
    MaxStored    \* bound: documents stored

ASSUME RecordsAssumption ==
    /\ IsFiniteSet(Threads)
    /\ Home \in [Threads -> Processes]
    /\ Skew \in [Processes -> Int]
    /\ MaxTime \in Nat /\ MaxRecords \in Nat /\ MaxStored \in Nat

VARIABLES
    now,        \* the clock of the time service
    available,  \* _time_sync_available of each process
    pc, reply,  \* each thread in create_log, and the time it was answered
    before,     \* history: how many records were complete when it began
    records,    \* the records created, in the order they were completed
    failures,   \* history: requests to the time service that raised, per process
    stored,     \* how many documents MongoDB has with each status
    total,      \* the overview under way: its first count, or None
    overview    \* the last answer: success_count

stamping == <<available, pc, reply, before, records, failures>>
reading  == <<total, overview>>
vars     == <<now, stamping, stored, reading>>

None == -1

Statuses == {"SUCCESS", "INFO", "WARNING", "ERROR"}

Init ==
    /\ now = 0
    /\ available = [p \in Processes |-> TRUE]
    /\ pc = [t \in Threads |-> "idle"]
    /\ reply = [t \in Threads |-> 0]
    /\ before = [t \in Threads |-> 0]
    /\ records = <<>>
    /\ failures = [p \in Processes |-> 0]
    /\ stored = [status \in Statuses |-> 0]
    /\ total = None /\ overview = 0

Busy        == {t \in Threads : pc[t] # "idle"}
LocalUtc(t) == now + Skew[Home[t]]
--------------------------------------------------------------------------------
\* get_synchronized_utc_time and create_log.

\* Only a process for which no request has raised asks.
Begin(t) ==
    /\ pc[t] = "idle"
    /\ Len(records) + Cardinality(Busy) < MaxRecords
    /\ pc' = [pc EXCEPT ![t] = IF available[Home[t]] THEN "asks" ELSE "alone"]
    /\ before' = [before EXCEPT ![t] = Len(records)]
    /\ UNCHANGED <<now, available, reply, records, failures, stored, reading>>

\* The /time handler.
GetTime(t) ==
    /\ pc[t] = "asks"
    /\ pc' = [pc EXCEPT ![t] = "answered"]
    /\ reply' = [reply EXCEPT ![t] = now]
    /\ UNCHANGED <<now, available, before, records, failures, stored, reading>>

Completes(t, time, fallback) ==
    /\ pc' = [pc EXCEPT ![t] = "idle"]
    /\ reply' = [reply EXCEPT ![t] = 0] /\ before' = [before EXCEPT ![t] = 0]
    /\ records' = Append(records, [timestamp |-> time, fallback |-> fallback,
                                   before |-> before[t]])

\* Variant: the time is looked for under another key, and the default is taken.
UseDefault(t) ==
    /\ pc[t] = "answered"
    /\ Completes(t, LocalUtc(t), FALSE)
    /\ UNCHANGED <<now, available, failures, stored, reading>>

\* Variant: a success makes the service available again.
UseReplyAndForgive(t) ==
    /\ pc[t] = "answered"
    /\ Completes(t, reply[t], FALSE)
    /\ available' = [available EXCEPT ![Home[t]] = TRUE]
    /\ UNCHANGED <<now, failures, stored, reading>>

UseReply(t) ==
    /\ pc[t] = "answered"
    /\ Completes(t, reply[t], FALSE)
    /\ UNCHANGED <<now, available, failures, stored, reading>>

\* Another status than 200: the local clock, this once.
Refused(t) ==
    /\ pc[t] = "asks"
    /\ Completes(t, LocalUtc(t), TRUE)
    /\ UNCHANGED <<now, available, failures, stored, reading>>

\* No connection, or no answer within a second: the local clock from now on.
Raises(t) ==
    /\ pc[t] \in {"asks", "answered"}
    /\ Completes(t, LocalUtc(t), TRUE)
    /\ available' = [available EXCEPT ![Home[t]] = FALSE]
    /\ failures' = [failures EXCEPT ![Home[t]] = @ + 1]
    /\ UNCHANGED <<now, stored, reading>>

GoAlone(t) ==
    /\ pc[t] = "alone"
    /\ Completes(t, LocalUtc(t), TRUE)
    /\ UNCHANGED <<now, available, failures, stored, reading>>
--------------------------------------------------------------------------------
NotErrors == stored["SUCCESS"] + stored["INFO"] + stored["WARNING"]
Documents == NotErrors + stored["ERROR"]

\* insert_log.
Insert ==
    /\ Documents < Len(records) /\ Documents < MaxStored
    /\ \E status \in Statuses : stored' = [stored EXCEPT ![status] = @ + 1]
    /\ UNCHANGED <<now, stamping, reading>>

\* get_overview: all documents are counted, and then those with status ERROR.

CountTotal ==
    /\ total = None
    /\ total' = Documents
    /\ UNCHANGED <<now, stamping, stored, overview>>

Difference(all, errors) == IF all > errors THEN all - errors ELSE 0

\* Variant: the errors are the older of the two counts.
CountBackwards ==
    \/ /\ total = None
       /\ total' = stored["ERROR"]
       /\ UNCHANGED <<now, stamping, stored, overview>>
    \/ /\ total # None
       /\ overview' = Difference(Documents, total)
       /\ total' = None
       /\ UNCHANGED <<now, stamping, stored>>

CountErrors ==
    /\ total # None
    /\ overview' = Difference(total, stored["ERROR"])
    /\ total' = None
    /\ UNCHANGED <<now, stamping, stored>>

GetOverview == CountTotal \/ CountErrors

\* The wall clock of the time service only goes forward: nothing in the code does more
\* than read it, and nothing would notice a step back.
Tick ==
    /\ now < MaxTime
    /\ now' = now + 1
    /\ UNCHANGED <<stamping, stored, reading>>

CreateLog(t) ==
    \/ Begin(t) \/ GetTime(t) \/ UseReply(t) \/ Refused(t) \/ Raises(t) \/ GoAlone(t)

Next == (\E t \in Threads : CreateLog(t)) \/ Insert \/ GetOverview \/ Tick

Spec == Init /\ [][Next]_vars
--------------------------------------------------------------------------------
\* Every variable keeps its type, and no process that has failed asks again.
TypeOK ==
    /\ now \in 0..MaxTime
    /\ available \in [Processes -> BOOLEAN]
    /\ pc \in [Threads -> {"idle", "asks", "answered", "alone"}]
    /\ reply \in [Threads -> 0..now]
    /\ before \in [Threads -> 0..Len(records)]
    /\ records \in Seq([timestamp : Int, fallback : BOOLEAN, before : Nat])
    /\ \A n \in 1..Len(records) : records[n].before < n
    /\ failures \in [Processes -> Nat]
    /\ \A p \in Processes : available[p] <=> failures[p] = 0
    /\ stored \in [Statuses -> Nat]
    /\ Documents <= Len(records)
    /\ total \in Nat \cup {None} /\ overview \in Nat

\* Sorting a trace by timestamp tells what came first among records of any processes,
\* however their clocks differ, as long as none of the two was stamped locally.
SyncedRecordsInOrder ==
    \A later \in 1..Len(records) : \A earlier \in 1..records[later].before :
        ~records[earlier].fallback /\ ~records[later].fallback
            => records[earlier].timestamp <= records[later].timestamp

\* "cache failure to avoid repeated timeouts": a process pays for a missing time service
\* at most once per thread, those already waiting included.
TimeoutsAreNotRepeated ==
    \A p \in Processes : failures[p] <= Cardinality({t \in Threads : Home[t] = p})

\* success_count is all but the errors, INFO and WARNING records included; what is stored
\* between the two counts never makes it more than that.
OverviewNeverFlatters == overview <= NotErrors
================================================================================
