----------------------------- MODULE MCCoordinator -----------------------------
\* Instances of Coordinator for TLC.
EXTENDS Coordinator

CONSTANTS pay, bpay, bps, h1

\* FAILOVER_MAP, restricted to the names of the instance.
MCFailoverMap == [n \in {pay} |-> bpay]

\* No name is pinned by the environment.
NoPins == [n \in Ports \cup Extra |-> NoHost]
================================================================================
