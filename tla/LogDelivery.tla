------------------------------- MODULE LogDelivery -------------------------------
(***************************************************************************)
(* What the log pipeline promises its senders, with nothing said of Redis, *)
(* HTTP, batches, attempts or outages: every copy of an entry that arrives *)
(* is waiting or stored, a copy that waits is stored once, and only        *)
(* crashes lose copies: of the process that has them in its hands, or of   *)
(* the store they wait in, which may also have some back that had left it. *)
(***************************************************************************)
EXTENDS Naturals

CONSTANT Logs      \* the entries

VARIABLES
    arrivals,      \* how many copies of each entry arrived
    waiting,       \* ... wait to be stored
    stored,        \* ... are stored
    atRisk,        \* the entries a crashing process had in its hands
    dropped,       \* the entries the store lost
    restored       \* how many copies of each it had back

failures == <<atRisk, dropped, restored>>
vars     == <<arrivals, waiting, stored, failures>>

Init == /\ arrivals = [l \in Logs |-> 0]
        /\ waiting  = [l \in Logs |-> 0]
        /\ stored   = [l \in Logs |-> 0]
        /\ atRisk = {} /\ dropped = {}
        /\ restored = [l \in Logs |-> 0]

More(f, S) == [l \in Logs |-> IF l \in S THEN f[l] + 1 ELSE f[l]]
Less(f, S) == [l \in Logs |-> IF l \in S THEN f[l] - 1 ELSE f[l]]

\* The entries of S that have a copy waiting.
Waiting(S) == {l \in S : waiting[l] > 0}

Accept(l) == /\ arrivals' = More(arrivals, {l})
             /\ waiting'  = More(waiting, {l})
             /\ UNCHANGED <<stored, failures>>

\* A copy is stored as it arrives.
AcceptStored(l) == /\ arrivals' = More(arrivals, {l})
                   /\ stored'   = More(stored, {l})
                   /\ UNCHANGED <<waiting, failures>>

Store(S) == /\ S = Waiting(S)
            /\ waiting' = Less(waiting, S)
            /\ stored'  = More(stored, S)
            /\ UNCHANGED <<arrivals, failures>>

\* Copies are lost of none but the entries in the hands of a process that dies and
\* those the store forgets; the store has one copy back of some others.
Crash(held, gone, back) ==
    /\ atRisk' = atRisk \cup held
    /\ dropped' = dropped \cup gone
    /\ restored' = More(restored, back)
    /\ \E lost \in SUBSET Waiting(held \cup gone) :
           waiting' = More(Less(waiting, lost), back)
    /\ UNCHANGED <<arrivals, stored>>

Next == \/ \E l \in Logs : Accept(l) \/ AcceptStored(l)
        \/ \E S \in SUBSET Logs : Store(S)
        \/ \E held, gone, back \in SUBSET Logs : Crash(held, gone, back)

Spec == Init /\ [][Next]_vars
================================================================================
