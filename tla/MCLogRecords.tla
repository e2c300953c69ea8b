------------------------------ MODULE MCLogRecords ------------------------------
\* The instance of LogRecords for TLC.
EXTENDS LogRecords, TLC

CONSTANTS p1, p2, t1, t2, t3

\* A process with two threads, and one with a single thread whose clock is behind.
MCHome == [t \in Threads |-> IF t = t3 THEN p2 ELSE p1]
MCSkew == [p \in Processes |-> IF p = p2 THEN -1 ELSE 0]

\* The two threads of the first process are alike.
MCSymmetry == Permutations({t1, t2})
================================================================================
