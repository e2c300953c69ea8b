------------------------------- MODULE MCSessions -------------------------------
\* Instances of Sessions for TLC.
EXTENDS Sessions

CONSTANTS b1, b2, r1, r2

\* Either browser has one request under way at a time.
MCOwner == [r \in Requests |-> IF r = r1 THEN b1 ELSE b2]
================================================================================
