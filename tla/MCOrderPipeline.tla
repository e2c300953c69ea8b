---------------------------- MODULE MCOrderPipeline ----------------------------
\* Instances of OrderPipeline for TLC.
EXTENDS OrderPipeline

CONSTANTS o1, o2, o3, p1

\* Two orders compete for a product, a third asks for less than nothing of it.
MCProduct  == [o \in Orders |-> p1]
MCQuantity == [o \in Orders |-> CASE o = o1 -> 1 [] o = o2 -> 2 [] o = o3 -> -1]

\* The shelf suffices for either of the two, and for both only with what the third adds.
MCShelf == [p \in Products |-> 2]
================================================================================
