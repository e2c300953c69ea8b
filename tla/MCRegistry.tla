------------------------------- MODULE MCRegistry -------------------------------
\* Instances of Registry for TLC.
EXTENDS Registry

CONSTANTS n1, i1, i2

\* Two processes of one service: it was moved to another host, or runs twice.
MCServiceOf == [i \in {i1, i2} |-> n1]
================================================================================
