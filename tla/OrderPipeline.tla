----------------------------- MODULE OrderPipeline -----------------------------
(***************************************************************************)
(* An order on its way through the services: the order service checks the  *)
(* stock, charges the customer, takes the stock and notifies, one HTTP     *)
(* call after the other, for many orders at once.  A request may be lost,  *)
(* its answer may be lost, and a request given up after its timeout may    *)
(* still be carried out later.                                             *)
(*                                                                         *)
(* Where the coordinator sends a call does not matter here: a call to an   *)
(* address where nobody answers is a lost request.                         *)
(***************************************************************************)
EXTENDS Integers, FiniteSets

CONSTANTS
    Orders,       \* POSTs of /api/order/create
    Products,     \* product_id
    Product,      \* the product of each order
    Quantity,     \* ... and how many of it: no service looks at the sign
    Shelf,        \* STOCK when the inventory service starts
    MaxRestarts   \* bound: restarts of the inventory service

ASSUME OrderAssumption ==
    /\ Product  \in [Orders -> Products]
    /\ Quantity \in [Orders -> Int]
    /\ Shelf    \in [Products -> Nat]
    /\ MaxRestarts \in Nat

VARIABLES
    STOCK,      \* the inventory service's stock
    restarts,   \* restarts still allowed
    stage,      \* the call each order waits for, or "new" or "done"
    sent,       \* the requests under way: <<order, call>>
    reply,      \* the answer to the call the order waits for
    verdict,    \* the status the order is answered with, 0 until it is known
    charged,    \* how many payments of the order succeeded
    taken,      \* the orders that took stock from the present process
    everTaken,  \* history: the orders that ever took stock
    lost,       \* history: the requests that were never carried out
    told        \* history: what the notifications said of the order

calls    == <<stage, sent, reply>>
services == <<STOCK, restarts, charged, taken, everTaken, lost, told>>
vars     == <<calls, verdict, services>>

Calls == {"check", "pay", "deduct", "notify"}

Init ==
    /\ STOCK = Shelf
    /\ restarts = MaxRestarts
    /\ stage = [o \in Orders |-> "new"]
    /\ sent = {}
    /\ reply = [o \in Orders |-> "none"]
    /\ verdict = [o \in Orders |-> 0]
    /\ charged = [o \in Orders |-> 0]
    /\ taken = {} /\ everTaken = {} /\ lost = {}
    /\ told = [o \in Orders |-> {}]
--------------------------------------------------------------------------------
\* create_order, in the thread that serves the order.

Call(o, call) ==
    /\ stage' = [stage EXCEPT ![o] = call]
    /\ sent'  = sent \cup {<<o, call>>}
    /\ reply' = [reply EXCEPT ![o] = "none"]

Answer(o) == stage' = [stage EXCEPT ![o] = "done"] /\ UNCHANGED <<sent, reply>>

Decide(o, status) == verdict' = [verdict EXCEPT ![o] = status]

Receive(o) ==
    /\ stage[o] = "new"
    /\ Call(o, "check")
    /\ UNCHANGED verdict

\* Any call may end in an exception instead of its answer: refused, lost, late.
Check(o) ==
    /\ stage[o] = "check"
    /\ \/ reply[o] = "ok" /\ Call(o, "pay")  /\ UNCHANGED verdict
       \/ reply[o] = "no" /\ Answer(o)       /\ Decide(o, 400)
       \/                    Answer(o)       /\ Decide(o, 503)

\* Variant: a payment that raises is answered like a declined one.
PayOrRefuse(o) ==
    /\ stage[o] = "pay"
    /\ \/ reply[o] = "ok" /\ Call(o, "deduct") /\ UNCHANGED verdict
       \/                    Answer(o)         /\ Decide(o, 402)

\* Variant: the customer is told of a payment that raised, too.
PayOrNotify(o) ==
    /\ stage[o] = "pay"
    /\ \/ reply[o] = "ok" /\ Call(o, "deduct") /\ UNCHANGED verdict
       \/ reply[o] = "no" /\ Call(o, "notify") /\ Decide(o, 402)
       \/                    Call(o, "notify") /\ Decide(o, 503)

Pay(o) ==
    /\ stage[o] = "pay"
    /\ \/ reply[o] = "ok" /\ Call(o, "deduct") /\ UNCHANGED verdict
       \/ reply[o] = "no" /\ Call(o, "notify") /\ Decide(o, 402)
       \/                    Answer(o)         /\ Decide(o, 503)

\* Variant: without a timeout.
DeductAndWait(o) ==
    /\ stage[o] = "deduct"
    /\ reply[o] # "none"
    /\ Call(o, "notify")
    /\ Decide(o, 200)

\* Variant: a deduction that raises is tried again.
DeductAgain(o) ==
    /\ stage[o] = "deduct"
    /\ \/ reply[o] # "none" /\ Call(o, "notify") /\ Decide(o, 200)
       \/                      Call(o, "deduct") /\ UNCHANGED verdict

\* The answer is not looked at, and an exception is only logged.
Deduct(o) ==
    /\ stage[o] = "deduct"
    /\ Call(o, "notify")
    /\ Decide(o, 200)

\* _notify ignores the outcome too.
Notify(o) ==
    /\ stage[o] = "notify"
    /\ Answer(o)
    /\ UNCHANGED verdict

Thread(o) == /\ Receive(o) \/ Check(o) \/ Pay(o) \/ Deduct(o) \/ Notify(o)
             /\ UNCHANGED services
--------------------------------------------------------------------------------
\* The services it calls.

\* A request is served; nobody reads the answer to a call that was given up.
Reply(o, call, answer) ==
    /\ <<o, call>> \in sent
    /\ sent' = sent \ {<<o, call>>}
    /\ reply' = IF stage[o] = call THEN [reply EXCEPT ![o] = answer] ELSE reply

Enough(o) == STOCK[Product[o]] >= Quantity[o]

ServeCheck(o) ==
    /\ Reply(o, "check", IF Enough(o) THEN "ok" ELSE "no")
    /\ UNCHANGED services

\* process_payment: the card is charged, or declined at random.
ServePay(o) ==
    /\ \/ Reply(o, "pay", "ok") /\ charged' = [charged EXCEPT ![o] = @ + 1]
       \/ Reply(o, "pay", "no") /\ UNCHANGED charged
    /\ UNCHANGED <<STOCK, restarts, taken, everTaken, lost, told>>

\* Variant: what is left is computed from the stock at the start of the process.
ServeDeductStale(o) ==
    /\ Reply(o, "deduct", IF Enough(o) THEN "ok" ELSE "no")
    /\ IF Enough(o)
       THEN /\ STOCK' = [STOCK EXCEPT ![Product[o]] = Shelf[Product[o]] - Quantity[o]]
            /\ taken' = taken \cup {o} /\ everTaken' = everTaken \cup {o}
       ELSE UNCHANGED <<STOCK, taken, everTaken>>
    /\ UNCHANGED <<restarts, charged, lost, told>>

\* Variant: the deduction relies on the check.
ServeDeductUnchecked(o) ==
    /\ Reply(o, "deduct", "ok")
    /\ STOCK' = [STOCK EXCEPT ![Product[o]] = @ - Quantity[o]]
    /\ taken' = taken \cup {o} /\ everTaken' = everTaken \cup {o}
    /\ UNCHANGED <<restarts, charged, lost, told>>

\* deduct_stock looks at the stock again, under the lock.
ServeDeduct(o) ==
    /\ Reply(o, "deduct", IF Enough(o) THEN "ok" ELSE "no")
    /\ IF Enough(o)
       THEN /\ STOCK' = [STOCK EXCEPT ![Product[o]] = @ - Quantity[o]]
            /\ taken' = taken \cup {o} /\ everTaken' = everTaken \cup {o}
       ELSE UNCHANGED <<STOCK, taken, everTaken>>
    /\ UNCHANGED <<restarts, charged, lost, told>>

ServeNotify(o) ==
    /\ Reply(o, "notify", "ok")
    /\ told' = [told EXCEPT ![o] = @ \cup {IF verdict[o] = 200 THEN "placed" ELSE "failed"}]
    /\ UNCHANGED <<STOCK, restarts, charged, taken, everTaken, lost>>

Serve(o) == /\ ServeCheck(o) \/ ServePay(o) \/ ServeDeduct(o) \/ ServeNotify(o)
            /\ UNCHANGED <<stage, verdict>>

Lose(o, call) ==
    /\ <<o, call>> \in sent
    /\ sent' = sent \ {<<o, call>>}
    /\ lost' = lost \cup {<<o, call>>}
    /\ UNCHANGED <<stage, reply, verdict, STOCK, restarts, charged, taken, everTaken, told>>

\* The stock lives in memory: a new process starts with full shelves.
RestartInventory ==
    /\ restarts > 0
    /\ restarts' = restarts - 1
    /\ STOCK' = Shelf
    /\ taken' = {}
    /\ UNCHANGED <<calls, verdict, charged, everTaken, lost, told>>

Next == \/ \E o \in Orders : Thread(o) \/ Serve(o) \/ \E call \in Calls : Lose(o, call)
        \/ RestartInventory

Spec == Init /\ [][Next]_vars

\* Every thread runs on: each of its calls has a timeout.
FairSpec == Spec /\ \A o \in Orders : WF_vars(Thread(o))
--------------------------------------------------------------------------------
Done(o) == stage[o] = "done"

\* Every variable keeps its type: the stock of a product never falls below nothing.
TypeOK ==
    /\ STOCK \in [Products -> Nat]
    /\ restarts \in 0..MaxRestarts
    /\ stage \in [Orders -> Calls \cup {"new", "done"}]
    /\ sent \subseteq Orders \X Calls
    /\ reply \in [Orders -> {"none", "ok", "no"}]
    /\ verdict \in [Orders -> {0, 200, 400, 402, 503}]
    /\ charged \in [Orders -> Nat]
    /\ lost \subseteq Orders \X Calls
    /\ taken \subseteq everTaken /\ everTaken \subseteq Orders
    /\ told \in [Orders -> SUBSET {"placed", "failed"}]

\* The orders whose deduction the present inventory process carried out.
Deducted(p) == {o \in taken : Product[o] = p}

\* The items of a product that it gave away, and those that "deductions" of less than
\* nothing added to the shelf.
Items(p) == UNION {{o} \X (1..Quantity[o]) : o \in Deducted(p)}
Added(p) == UNION {{o} \X (1..-Quantity[o]) : o \in Deducted(p)}

\* However many orders passed the check before any of them deducted, the inventory
\* service never gives away more than was on its shelves and was added by then; its
\* stock is what is left.  (More than its shelves held does go out, once an order with
\* a negative quantity, which nothing refuses, has been accepted.)
NeverOversold ==
    \A p \in Products :
        /\ Cardinality(Items(p)) <= Shelf[p] + Cardinality(Added(p))
        /\ STOCK[p] = Shelf[p] + Cardinality(Added(p)) - Cardinality(Items(p))

\* Stock is taken only for orders that were paid for, even by a deduction carried out
\* long after the order was answered.
StockOnlyIfPaid == \A o \in everTaken : charged[o] > 0

\* The answer tells the customer what was charged, for ever after: once for an order
\* that was placed, nothing for one that was refused.  (503 may be either.)
AnswerTellsCharge ==
    \A o \in Orders :
        /\ charged[o] <= 1
        /\ verdict[o] = 200 => charged[o] = 1
        /\ verdict[o] \in {400, 402} => charged[o] = 0

\* A customer who is told that the order failed was not and will not be charged, one
\* who is told that it was placed has been, and nobody is told both.
NoticeTellsCharge ==
    \A o \in Orders : /\ "placed" \in told[o] => charged[o] = 1
                      /\ "failed" \in told[o] => charged[o] = 0

Book == INSTANCE OrderBook WITH stock <- STOCK

\* Four services and as many requests per order, lost, late or answered, keep the
\* promises of OrderBook: every step charges, settles, gives or tells as it allows.
ImplementsBook == Book!Spec

\* Every order that was received is answered, whatever becomes of its calls.
EveryOrderAnswered == \A o \in Orders : stage[o] = "check" ~> Done(o)

\* The answer "Order placed successfully", said after the stock was "verified": an
\* order that was placed, and whose deduction was carried out, has its stock.
PlacedTookStock ==
    \A o \in Orders :
        Done(o) /\ verdict[o] = 200 /\ <<o, "deduct">> \notin sent \cup lost
            => o \in everTaken
================================================================================
