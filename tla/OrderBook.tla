-------------------------------- MODULE OrderBook --------------------------------
(***************************************************************************)
(* What the shop promises about an order, with nothing said of services,   *)
(* requests, timeouts or threads: a customer is charged at most once, and  *)
(* never after an answer or a notice that says otherwise; stock is given   *)
(* once, for a paid order, and never more than there is.  An order of less *)
(* than nothing is an order like any other: it fills the shelf.            *)
(***************************************************************************)
EXTENDS Integers

CONSTANTS Orders, Product, Quantity, Shelf

VARIABLES
    stock,       \* what is left of each product
    taken,       \* the orders that got theirs since the shelves were last filled
    everTaken,   \* ... or ever
    charged,     \* how often each order was charged
    verdict,     \* the status each is answered with, 0 until it is known
    told         \* what the notices said of it

vars == <<stock, taken, everTaken, charged, verdict, told>>

Init == /\ stock = Shelf
        /\ taken = {} /\ everTaken = {}
        /\ charged = [o \in Orders |-> 0]
        /\ verdict = [o \in Orders |-> 0]
        /\ told = [o \in Orders |-> {}]

\* The customer pays: before the answer, or after one that leaves it open (503).
Charge(o) == /\ charged[o] = 0
             /\ verdict[o] \in {0, 503}
             /\ charged' = [charged EXCEPT ![o] = 1]
             /\ UNCHANGED <<stock, taken, everTaken, verdict, told>>

\* The answer is fixed: 200 to those who paid, 400 or 402 to those who did not.
Settle(o, status) ==
    /\ verdict[o] = 0
    /\ status = 200 => charged[o] = 1
    /\ status \in {400, 402} => charged[o] = 0
    /\ verdict' = [verdict EXCEPT ![o] = status]
    /\ UNCHANGED <<stock, taken, everTaken, charged, told>>

\* The goods leave the shelf.
Give(o) == /\ charged[o] = 1
           /\ o \notin everTaken
           /\ stock[Product[o]] >= Quantity[o]
           /\ stock' = [stock EXCEPT ![Product[o]] = @ - Quantity[o]]
           /\ taken' = taken \cup {o} /\ everTaken' = everTaken \cup {o}
           /\ UNCHANGED <<charged, verdict, told>>

\* The customer is told what the answer said.
Tell(o, notice) ==
    /\ \/ notice = "placed" /\ verdict[o] = 200
       \/ notice = "failed" /\ verdict[o] = 402
    /\ told' = [told EXCEPT ![o] = @ \cup {notice}]
    /\ UNCHANGED <<stock, taken, everTaken, charged, verdict>>

Refill == stock' = Shelf /\ taken' = {} /\ UNCHANGED <<everTaken, charged, verdict, told>>

Next == \/ \E o \in Orders :
              \/ Charge(o) \/ Give(o)
              \/ \E status \in {200, 400, 402, 503} : Settle(o, status)
              \/ \E notice \in {"placed", "failed"} : Tell(o, notice)
        \/ Refill

Spec == Init /\ [][Next]_vars
================================================================================
