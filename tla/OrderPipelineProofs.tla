-------------------------- MODULE OrderPipelineProofs --------------------------
(***************************************************************************)
(* Theorems about OrderPipeline, for any number of orders, products,       *)
(* quantities (of either sign) and stocks.                                 *)
(***************************************************************************)
EXTENDS OrderPipeline, FiniteSetTheorems, TLAPS

Idle(o, S) == \A call \in S : <<o, call>> \notin sent

\* Nothing has been decided, charged, given or said.
Fresh(o) == /\ charged[o] = 0 /\ verdict[o] = 0 /\ told[o] = {} /\ o \notin everTaken
            /\ Idle(o, {"pay", "deduct", "notify"})

\* What holds of an order at each stage of its thread.
ThreadOK(o) ==
    /\ stage[o] \in {"new", "check"} => Fresh(o)
    /\ stage[o] = "pay"    => /\ verdict[o] = 0 /\ told[o] = {} /\ o \notin everTaken
                              /\ Idle(o, {"deduct", "notify"})
                              /\ reply[o] = "ok" => charged[o] = 1
                              /\ reply[o] = "no" => charged[o] = 0
    /\ stage[o] = "deduct" => /\ verdict[o] = 0 /\ told[o] = {}
                              /\ Idle(o, {"notify"})
                              /\ charged[o] = 1

\* What the requests still under way, whenever they are carried out, may find.
RequestsOK(o) ==
    /\ reply[o] # "none" => <<o, stage[o]>> \notin sent
    /\ <<o, "pay">> \in sent => /\ charged[o] = 0
                                /\ \/ stage[o] = "pay"
                                   \/ stage[o] = "done" /\ verdict[o] = 503 /\ told[o] = {}
    /\ <<o, "deduct">> \in sent => charged[o] = 1 /\ o \notin everTaken
    /\ <<o, "notify">> \in sent => verdict[o] \in {200, 402}

\* What the rest of the world has been given: charges, stock, answers and notices.
EffectsOK(o) ==
    /\ charged[o] <= 1
    /\ o \in everTaken => charged[o] = 1
    /\ verdict[o] = 200 => charged[o] = 1
    /\ verdict[o] \in {400, 402} => charged[o] = 0
    /\ "placed" \in told[o] => verdict[o] = 200
    /\ "failed" \in told[o] => verdict[o] = 402

OrderOK(o) == ThreadOK(o) /\ RequestsOK(o) /\ EffectsOK(o)

OrderInv == TypeOK /\ \A o \in Orders : OrderOK(o)
--------------------------------------------------------------------------------
\* Types.

LEMMA Shelves == /\ Product \in [Orders -> Products] /\ Quantity \in [Orders -> Int]
                 /\ Shelf \in [Products -> Nat] /\ MaxRestarts \in Nat
  BY OrderAssumption

LEMMA TypeInit == Init => TypeOK
  BY Shelves DEF Init, TypeOK, Calls

\* The order's thread changes its own stage, reply and verdict, and adds a request.
LEMMA ThreadType == ASSUME TypeOK, NEW o \in Orders, Thread(o) PROVE TypeOK'
<1>1. /\ stage' \in [Orders -> Calls \cup {"new", "done"}]
      /\ sent' \subseteq Orders \X Calls
      /\ reply' \in [Orders -> {"none", "ok", "no"}]
      /\ verdict' \in [Orders -> {0, 200, 400, 402, 503}]
  <2>1. ASSUME NEW call \in Calls, Call(o, call)
        PROVE  /\ stage' \in [Orders -> Calls \cup {"new", "done"}]
               /\ sent' \subseteq Orders \X Calls
               /\ reply' \in [Orders -> {"none", "ok", "no"}]
    BY <2>1 DEF Call, TypeOK
  <2>2. ASSUME Answer(o)
        PROVE  /\ stage' \in [Orders -> Calls \cup {"new", "done"}]
               /\ sent' \subseteq Orders \X Calls
               /\ reply' \in [Orders -> {"none", "ok", "no"}]
    BY <2>2 DEF Answer, TypeOK
  <2>3. ASSUME NEW status \in {200, 400, 402, 503}, Decide(o, status)
        PROVE  verdict' \in [Orders -> {0, 200, 400, 402, 503}]
    BY <2>3 DEF Decide, TypeOK
  <2>4. UNCHANGED verdict => verdict' \in [Orders -> {0, 200, 400, 402, 503}]
    BY DEF TypeOK
  <2>5. "check" \in Calls /\ "pay" \in Calls /\ "deduct" \in Calls /\ "notify" \in Calls
    BY DEF Calls
  <2>6. CASE Receive(o)
    BY <2>1, <2>4, <2>5, <2>6 DEF Receive
  <2>7. CASE Check(o)
    BY <2>1, <2>2, <2>3, <2>4, <2>5, <2>7 DEF Check
  <2>8. CASE Pay(o)
    BY <2>1, <2>2, <2>3, <2>4, <2>5, <2>8 DEF Pay
  <2>9. CASE Deduct(o)
    BY <2>1, <2>3, <2>5, <2>9 DEF Deduct
  <2>10. CASE Notify(o)
    BY <2>2, <2>4, <2>10 DEF Notify
  <2> QED
    BY <2>6, <2>7, <2>8, <2>9, <2>10 DEF Thread
<1>2. UNCHANGED services
  BY DEF Thread
<1> QED
  BY <1>1, <1>2 DEF TypeOK, services

LEMMA ServeType == ASSUME TypeOK, NEW o \in Orders, Serve(o) PROVE TypeOK'
<1>1. ASSUME NEW call, NEW answer \in {"ok", "no"}, Reply(o, call, answer)
      PROVE  /\ sent' \subseteq Orders \X Calls
             /\ reply' \in [Orders -> {"none", "ok", "no"}]
  BY <1>1 DEF Reply, TypeOK
<1>2. UNCHANGED <<stage, verdict>>
  BY DEF Serve
<1>3. CASE ServeCheck(o)
  <2>1. /\ sent' \subseteq Orders \X Calls
        /\ reply' \in [Orders -> {"none", "ok", "no"}]
    BY <1>1, <1>3 DEF ServeCheck
  <2> QED
    BY <1>2, <1>3, <2>1 DEF ServeCheck, TypeOK, services
<1>4. CASE ServePay(o)
  <2>1. /\ sent' \subseteq Orders \X Calls
        /\ reply' \in [Orders -> {"none", "ok", "no"}]
    BY <1>1, <1>4 DEF ServePay
  <2>2. charged' \in [Orders -> Nat]
    BY <1>4 DEF ServePay, TypeOK
  <2>3. UNCHANGED <<STOCK, restarts, taken, everTaken, lost, told>>
    BY <1>4 DEF ServePay
  <2> QED
    BY <1>2, <2>1, <2>2, <2>3 DEF TypeOK
<1>5. CASE ServeDeduct(o)
  <2>1. /\ sent' \subseteq Orders \X Calls
        /\ reply' \in [Orders -> {"none", "ok", "no"}]
    BY <1>1, <1>5 DEF ServeDeduct
  <2>2. STOCK' \in [Products -> Nat]
    <3>1. CASE Enough(o)
      <4>1. STOCK' = [STOCK EXCEPT ![Product[o]] = @ - Quantity[o]]
        BY <1>5, <3>1 DEF ServeDeduct
      <4>2. /\ STOCK \in [Products -> Nat] /\ Product[o] \in Products
            /\ Quantity[o] \in Int /\ STOCK[Product[o]] >= Quantity[o]
        BY Shelves, <3>1 DEF TypeOK, Enough
      <4> QED
        BY <4>1, <4>2
    <3>2. CASE ~Enough(o)
      BY <1>5, <3>2 DEF ServeDeduct, TypeOK
    <3> QED
      BY <3>1, <3>2
  <2>3. taken' \subseteq everTaken' /\ everTaken' \subseteq Orders
    BY <1>5 DEF ServeDeduct, TypeOK
  <2>4. UNCHANGED <<restarts, charged, lost, told>>
    BY <1>5 DEF ServeDeduct
  <2> QED
    BY <1>2, <2>1, <2>2, <2>3, <2>4 DEF TypeOK
<1>6. CASE ServeNotify(o)
  <2>1. /\ sent' \subseteq Orders \X Calls
        /\ reply' \in [Orders -> {"none", "ok", "no"}]
    BY <1>1, <1>6 DEF ServeNotify
  <2>2. told' \in [Orders -> SUBSET {"placed", "failed"}]
    BY <1>6 DEF ServeNotify, TypeOK
  <2>3. UNCHANGED <<STOCK, restarts, charged, taken, everTaken, lost>>
    BY <1>6 DEF ServeNotify
  <2> QED
    BY <1>2, <2>1, <2>2, <2>3 DEF TypeOK
<1> QED
  BY <1>3, <1>4, <1>5, <1>6 DEF Serve

LEMMA TypeStep == TypeOK /\ [Next]_vars => TypeOK'
<1> SUFFICES ASSUME TypeOK, [Next]_vars PROVE TypeOK'
  OBVIOUS
<1>1. CASE \E o \in Orders : Thread(o) \/ Serve(o)
  BY <1>1, ThreadType, ServeType
<1>2. CASE \E o \in Orders : \E call \in Calls : Lose(o, call)
  BY <1>2 DEF Lose, TypeOK
<1>3. CASE RestartInventory
  BY <1>3, Shelves DEF RestartInventory, TypeOK, calls
<1>4. CASE UNCHANGED vars
  BY <1>4 DEF vars, calls, services, TypeOK
<1> QED
  BY <1>1, <1>2, <1>3, <1>4 DEF Next

\* Every variable keeps its type (TypeOK): whatever is taken when, and whatever
\* quantity it is asked for, deduct_stock never leaves less than nothing of a product.
THEOREM TypeCorrect == Spec => []TypeOK
  BY TypeInit, TypeStep, PTL DEF Spec

--------------------------------------------------------------------------------
\* The invariant of each order.

\* An order is not disturbed by a step that leaves its own state alone and adds none
\* of its requests.
LEMMA Frame ==
    ASSUME NEW o, OrderOK(o),
           stage'[o] = stage[o], reply'[o] = reply[o], verdict'[o] = verdict[o],
           charged'[o] = charged[o], told'[o] = told[o],
           o \in everTaken' => o \in everTaken,
           \A call : <<o, call>> \in sent' => <<o, call>> \in sent
    PROVE  OrderOK(o)'
  BY DEF OrderOK, ThreadOK, RequestsOK, EffectsOK, Fresh, Idle

\* The thread of one order, and a service at work for it, leave the others alone.
LEMMA Others ==
    ASSUME TypeOK, NEW x \in Orders, Thread(x) \/ Serve(x),
           NEW o \in Orders, o # x, OrderOK(o)
    PROVE  OrderOK(o)'
<1>1. CASE Thread(x)
  <2>1. /\ stage'[o] = stage[o] /\ reply'[o] = reply[o]
        /\ \A call : <<o, call>> \in sent' => <<o, call>> \in sent
    BY <1>1 DEF Thread, Receive, Check, Pay, Deduct, Notify, Call, Answer, TypeOK
  <2>2. verdict'[o] = verdict[o]
    BY <1>1 DEF Thread, Receive, Check, Pay, Deduct, Notify, Decide, TypeOK
  <2>3. charged' = charged /\ told' = told /\ everTaken' = everTaken
    BY <1>1 DEF Thread, services
  <2> QED
    BY <2>1, <2>2, <2>3, Frame
<1>2. CASE Serve(x)
  <2>1. stage' = stage /\ verdict' = verdict
    BY <1>2 DEF Serve
  <2>2. /\ reply'[o] = reply[o]
        /\ \A call : <<o, call>> \in sent' => <<o, call>> \in sent
    BY <1>2 DEF Serve, ServeCheck, ServePay, ServeDeduct, ServeNotify, Reply, TypeOK
  <2>3. charged'[o] = charged[o] /\ told'[o] = told[o]
    BY <1>2 DEF Serve, ServeCheck, ServePay, ServeDeduct, ServeNotify, services, TypeOK
  <2>4. o \in everTaken' => o \in everTaken
    BY <1>2 DEF Serve, ServeCheck, ServePay, ServeDeduct, ServeNotify, services
  <2> QED
    BY <2>1, <2>2, <2>3, <2>4, Frame
<1> QED
  BY <1>1, <1>2

\* What the thread's own steps do to it.
LEMMA OwnStep ==
    ASSUME TypeOK, NEW o \in Orders, Thread(o), OrderOK(o)
    PROVE  OrderOK(o)'
<1> USE DEF OrderOK, ThreadOK, RequestsOK, EffectsOK, Fresh, Idle
<1>0. /\ charged' = charged /\ told' = told /\ everTaken' = everTaken
      /\ stage[o] \in Calls \cup {"new", "done"}
      /\ reply[o] \in {"none", "ok", "no"}
  BY DEF Thread, services, TypeOK
<1>1. ASSUME NEW call, Call(o, call)
      PROVE  /\ stage'[o] = call /\ reply'[o] = "none"
             /\ \A c : <<o, c>> \in sent' <=> c = call \/ <<o, c>> \in sent
  BY <1>1 DEF Call, TypeOK
<1>2. ASSUME Answer(o)
      PROVE  stage'[o] = "done" /\ reply' = reply /\ sent' = sent
  BY <1>2 DEF Answer, TypeOK
<1>3. ASSUME NEW status, Decide(o, status)
      PROVE  verdict'[o] = status
  BY <1>3 DEF Decide, TypeOK
<1>4. <<o, "done">> \notin sent
  BY DEF TypeOK, Calls
<1>5. CASE Receive(o)
  BY <1>0, <1>1, <1>5 DEF Receive
<1>6. CASE Check(o)
  BY <1>0, <1>1, <1>2, <1>3, <1>4, <1>6 DEF Check
<1>7. CASE Pay(o)
  BY <1>0, <1>1, <1>2, <1>3, <1>4, <1>7 DEF Pay
<1>8. CASE Deduct(o)
  BY <1>0, <1>1, <1>3, <1>8 DEF Deduct
<1>9. CASE Notify(o)
  BY <1>0, <1>2, <1>4, <1>9 DEF Notify
<1> QED
  BY <1>5, <1>6, <1>7, <1>8, <1>9 DEF Thread

\* What a service does for the order, at whatever stage its thread is by then.
LEMMA Served ==
    ASSUME TypeOK, NEW o \in Orders, Serve(o), OrderOK(o)
    PROVE  OrderOK(o)'
<1> USE DEF OrderOK, ThreadOK, RequestsOK, EffectsOK, Fresh, Idle
<1>0. /\ stage' = stage /\ verdict' = verdict
      /\ charged[o] \in Nat
  BY DEF Serve, TypeOK
<1>1. ASSUME NEW call, NEW answer \in {"ok", "no"}, Reply(o, call, answer)
      PROVE  /\ <<o, call>> \in sent
             /\ \A c : <<o, c>> \in sent' <=> c # call /\ <<o, c>> \in sent
             /\ reply'[o] = IF stage[o] = call THEN answer ELSE reply[o]
  BY <1>1 DEF Reply, TypeOK
<1>2. CASE ServeCheck(o)
  <2>1. UNCHANGED <<charged, told, everTaken>>
    BY <1>2 DEF ServeCheck, services
  <2>2. PICK answer \in {"ok", "no"} : Reply(o, "check", answer)
    BY <1>2 DEF ServeCheck
  <2>3. /\ <<o, "check">> \in sent
        /\ \A c : <<o, c>> \in sent' <=> c # "check" /\ <<o, c>> \in sent
        /\ reply'[o] = IF stage[o] = "check" THEN answer ELSE reply[o]
    BY <1>1, <2>2
  <2>4. ThreadOK(o)' /\ EffectsOK(o)'
    BY <1>0, <2>1, <2>3
  <2>5. RequestsOK(o)'
    BY <1>0, <2>1, <2>3
  <2> QED
    BY <2>4, <2>5
<1>3. CASE ServePay(o)
  <2>1. UNCHANGED <<told, everTaken>>
    BY <1>3 DEF ServePay
  <2>2. CASE Reply(o, "pay", "ok") /\ charged' = [charged EXCEPT ![o] = @ + 1]
    <3>1. charged'[o] = charged[o] + 1
      BY <2>2 DEF TypeOK
    <3> QED
      BY <1>0, <1>1, <2>1, <2>2, <3>1
  <2>3. CASE Reply(o, "pay", "no") /\ UNCHANGED charged
    BY <1>0, <1>1, <2>1, <2>3
  <2> QED
    BY <1>3, <2>2, <2>3 DEF ServePay
<1>4. CASE ServeDeduct(o)
  <2>1. UNCHANGED <<charged, told>>
    BY <1>4 DEF ServeDeduct
  <2>2. PICK answer \in {"ok", "no"} : Reply(o, "deduct", answer)
    BY <1>4 DEF ServeDeduct
  <2>3. charged[o] = 1 /\ stage[o] \notin {"new", "check", "pay"}
    BY <1>1, <2>2
  <2> QED
    BY <1>0, <1>1, <2>1, <2>2, <2>3
<1>5. CASE ServeNotify(o)
  <2>1. UNCHANGED <<charged, everTaken>>
    BY <1>5 DEF ServeNotify
  <2>2. Reply(o, "notify", "ok")
    BY <1>5 DEF ServeNotify
  <2>3. verdict[o] \in {200, 402} /\ verdict[o] # 0
    BY <1>1, <2>2
  <2>4. told'[o] = told[o] \cup {IF verdict[o] = 200 THEN "placed" ELSE "failed"}
    BY <1>5 DEF ServeNotify, TypeOK
  <2>5. /\ "placed" \in told'[o] => verdict[o] = 200
        /\ "failed" \in told'[o] => verdict[o] = 402
    BY <2>3, <2>4
  <2>6. stage[o] \notin {"new", "check", "pay", "deduct"}
    BY <1>1, <2>2, <2>3
  <2>7. <<o, "pay">> \notin sent
    BY <1>1, <2>2, <2>3, <2>6
  <2> QED
    BY <1>0, <1>1, <2>1, <2>2, <2>5, <2>6, <2>7
<1> QED
  BY <1>2, <1>3, <1>4, <1>5 DEF Serve

LEMMA OrderInit == Init => OrderInv
<1> SUFFICES ASSUME Init PROVE OrderInv
  OBVIOUS
<1>1. ASSUME NEW o \in Orders PROVE OrderOK(o)
  BY DEF Init, OrderOK, ThreadOK, RequestsOK, EffectsOK, Fresh, Idle
<1> QED
  BY <1>1, TypeInit DEF OrderInv

LEMMA OrderStep == OrderInv /\ [Next]_vars => OrderInv'
<1> SUFFICES ASSUME OrderInv, [Next]_vars PROVE OrderInv'
  OBVIOUS
<1>0. TypeOK /\ TypeOK'
  BY TypeStep DEF OrderInv
<1>1. ASSUME NEW o \in Orders PROVE OrderOK(o)'
  <2>0. OrderOK(o)
    BY DEF OrderInv
  <2>1. CASE \E x \in Orders : Thread(x) \/ Serve(x)
    <3>1. PICK x \in Orders : Thread(x) \/ Serve(x)
      BY <2>1
    <3>2. CASE x = o
      BY <1>0, <2>0, <3>1, <3>2, OwnStep, Served
    <3>3. CASE x # o
      BY <1>0, <2>0, <3>1, <3>3, Others
    <3> QED
      BY <3>2, <3>3
  <2>2. CASE \E x \in Orders : \E call \in Calls : Lose(x, call)
    <3>1. /\ UNCHANGED <<stage, reply, verdict, charged, told, everTaken>>
          /\ sent' \subseteq sent
      BY <2>2 DEF Lose
    <3> QED
      BY <2>0, <3>1, Frame
  <2>3. CASE RestartInventory
    <3>1. /\ UNCHANGED <<stage, reply, verdict, charged, told, everTaken>>
          /\ sent' = sent
      BY <2>3 DEF RestartInventory, calls
    <3> QED
      BY <2>0, <3>1, Frame
  <2>4. CASE UNCHANGED vars
    <3>1. UNCHANGED <<stage, reply, verdict, charged, told, everTaken, sent>>
      BY <2>4 DEF vars, calls, services
    <3> QED
      BY <2>0, <3>1, Frame
  <2> QED
    BY <2>1, <2>2, <2>3, <2>4 DEF Next
<1> QED
  BY <1>0, <1>1 DEF OrderInv

LEMMA OrderInvariant == Spec => []OrderInv
  BY OrderInit, OrderStep, PTL DEF Spec

\* In every interleaving of orders, lost requests, late answers and restarts: stock is
\* taken only for paid orders (StockOnlyIfPaid), and what a customer is answered and
\* told agrees for ever with what was charged (AnswerTellsCharge, NoticeTellsCharge).
THEOREM CustomersAreTreatedFairly ==
    Spec => [](StockOnlyIfPaid /\ AnswerTellsCharge /\ NoticeTellsCharge)
<1>1. OrderInv => StockOnlyIfPaid /\ AnswerTellsCharge /\ NoticeTellsCharge
  <2> SUFFICES ASSUME OrderInv
               PROVE  StockOnlyIfPaid /\ AnswerTellsCharge /\ NoticeTellsCharge
    OBVIOUS
  <2>1. \A o \in Orders : EffectsOK(o)
    BY DEF OrderInv, OrderOK
  <2>2. StockOnlyIfPaid
    BY <2>1 DEF EffectsOK, StockOnlyIfPaid, OrderInv, TypeOK
  <2>3. AnswerTellsCharge /\ NoticeTellsCharge
    BY <2>1 DEF EffectsOK, AnswerTellsCharge, NoticeTellsCharge
  <2> QED
    BY <2>2, <2>3
<1> QED
  BY <1>1, OrderInvariant, PTL

\* No deduction, however late, takes stock for an order that was not paid for.
COROLLARY StockIsPaidFor == Spec => []StockOnlyIfPaid
  BY CustomersAreTreatedFairly, PTL

\* No notice, however late, contradicts the charge.
COROLLARY NoticesAreTrue == Spec => []NoticeTellsCharge
  BY CustomersAreTreatedFairly, PTL
--------------------------------------------------------------------------------
\* The promises of OrderBook.

BookStep == [Book!Next]_(Book!vars)

\* The thread only ever settles the verdict.
LEMMA ThreadKeepsBook ==
    ASSUME OrderInv, NEW o \in Orders, Thread(o)
    PROVE  BookStep
<1>0. ThreadOK(o) /\ UNCHANGED services
  BY DEF OrderInv, OrderOK, Thread
<1>1. ASSUME NEW status \in {200, 400, 402, 503}, Decide(o, status), verdict[o] = 0,
             status = 200 => charged[o] = 1, status \in {400, 402} => charged[o] = 0
      PROVE  BookStep
  <2>1. Book!Settle(o, status)
    BY <1>0, <1>1 DEF Decide, Book!Settle, services
  <2> QED
    BY <2>1 DEF BookStep, Book!Next
<1>2. CASE UNCHANGED verdict
  BY <1>0, <1>2 DEF BookStep, Book!vars, services
<1>3. CASE Check(o)
  BY <1>0, <1>1, <1>2, <1>3 DEF Check, ThreadOK, Fresh
<1>4. CASE Pay(o)
  BY <1>0, <1>1, <1>2, <1>4 DEF Pay, ThreadOK
<1>5. CASE Deduct(o)
  BY <1>0, <1>1, <1>5 DEF Deduct, ThreadOK
<1> QED
  BY <1>2, <1>3, <1>4, <1>5 DEF Thread, Receive, Notify

\* A service charges, gives or tells, and finds the order in a state that allows it.
LEMMA ServeKeepsBook ==
    ASSUME OrderInv, NEW o \in Orders, Serve(o)
    PROVE  BookStep
<1>0. /\ OrderOK(o) /\ UNCHANGED verdict /\ charged \in [Orders -> Nat]
      /\ \A call, answer : Reply(o, call, answer) => <<o, call>> \in sent
  BY DEF OrderInv, Serve, TypeOK, Reply
<1>1. CASE ServeCheck(o)
  BY <1>0, <1>1 DEF ServeCheck, services, BookStep, Book!vars
<1>2. CASE ServePay(o)
  <2>1. UNCHANGED <<STOCK, taken, everTaken, told>>
    BY <1>2 DEF ServePay
  <2>2. CASE Reply(o, "pay", "ok") /\ charged' = [charged EXCEPT ![o] = @ + 1]
    <3>1. charged[o] = 0 /\ verdict[o] \in {0, 503}
      BY <1>0, <2>2 DEF OrderOK, RequestsOK, ThreadOK
    <3>2. charged' = [charged EXCEPT ![o] = 1]
      BY <2>2, <3>1
    <3>3. Book!Charge(o)
      BY <1>0, <2>1, <3>1, <3>2 DEF Book!Charge
    <3> QED
      BY <3>3 DEF BookStep, Book!Next
  <2>3. CASE UNCHANGED charged
    BY <1>0, <2>1, <2>3 DEF BookStep, Book!vars
  <2> QED
    BY <1>2, <2>2, <2>3 DEF ServePay
<1>3. CASE ServeDeduct(o)
  <2>1. UNCHANGED <<charged, told>> /\ <<o, "deduct">> \in sent
    BY <1>0, <1>3 DEF ServeDeduct
  <2>2. CASE Enough(o)
    <3>1. charged[o] = 1 /\ o \notin everTaken
      BY <1>0, <2>1 DEF OrderOK, RequestsOK
    <3>2. Book!Give(o)
      BY <1>0, <1>3, <2>1, <2>2, <3>1 DEF ServeDeduct, Enough, Book!Give
    <3> QED
      BY <3>2 DEF BookStep, Book!Next
  <2>3. CASE ~Enough(o)
    BY <1>0, <1>3, <2>1, <2>3 DEF ServeDeduct, BookStep, Book!vars
  <2> QED
    BY <2>2, <2>3
<1>4. CASE ServeNotify(o)
  <2>1. verdict[o] \in {200, 402}
    BY <1>0, <1>4 DEF ServeNotify, OrderOK, RequestsOK
  <2>2. \E notice \in {"placed", "failed"} : Book!Tell(o, notice)
    <3>1. CASE verdict[o] = 200
      <4>1. Book!Tell(o, "placed")
        BY <1>0, <1>4, <3>1 DEF ServeNotify, Book!Tell
      <4> QED
        BY <4>1
    <3>2. CASE verdict[o] = 402
      <4>1. Book!Tell(o, "failed")
        BY <1>0, <1>4, <3>2 DEF ServeNotify, Book!Tell
      <4> QED
        BY <4>1
    <3> QED
      BY <2>1, <3>1, <3>2
  <2> QED
    BY <2>2 DEF BookStep, Book!Next
<1> QED
  BY <1>1, <1>2, <1>3, <1>4 DEF Serve

LEMMA StepKeepsBook == OrderInv /\ [Next]_vars => BookStep
<1> SUFFICES ASSUME OrderInv, [Next]_vars PROVE BookStep
  OBVIOUS
<1>1. CASE \E o \in Orders : Thread(o) \/ Serve(o)
  BY <1>1, ThreadKeepsBook, ServeKeepsBook
<1>2. CASE \E o \in Orders : \E call \in Calls : Lose(o, call)
  BY <1>2 DEF Lose, BookStep, Book!vars
<1>3. CASE RestartInventory
  <2>1. Book!Refill
    BY <1>3 DEF RestartInventory, Book!Refill
  <2> QED
    BY <2>1 DEF BookStep, Book!Next
<1>4. CASE UNCHANGED vars
  BY <1>4 DEF vars, calls, services, BookStep, Book!vars
<1> QED
  BY <1>1, <1>2, <1>3, <1>4 DEF Next

\* create_order and the four services keep the promises of OrderBook in every
\* interleaving of orders, lost and late requests, and restarts.
THEOREM OrdersImplementBook == Spec => ImplementsBook
<1>1. Init => Book!Init
  BY DEF Init, Book!Init
<1>2. []OrderInv /\ [][Next]_vars => [][Book!Next]_(Book!vars)
  <2>1. OrderInv /\ [Next]_vars => [Book!Next]_(Book!vars)
    BY StepKeepsBook DEF BookStep
  <2> QED
    BY <2>1, PTL
<1> QED
  BY <1>1, <1>2, OrderInvariant, PTL DEF Spec, ImplementsBook, Book!Spec

\* A verdict, once known, is never changed, and no request that is still under way can
\* charge the customer after any verdict but 503.
THEOREM VerdictsAreFinal ==
    Spec => [][\A o \in Orders : verdict[o] # 0 =>
                   /\ verdict'[o] = verdict[o]
                   /\ verdict[o] # 503 => charged'[o] = charged[o]]_vars
<1> DEFINE Final == \A o \in Orders : verdict[o] # 0 =>
                        /\ verdict'[o] = verdict[o]
                        /\ verdict[o] # 503 => charged'[o] = charged[o]
<1>1. OrderInv /\ [Next]_vars => Final
  <2> SUFFICES ASSUME OrderInv, [Next]_vars, NEW o \in Orders, verdict[o] # 0
               PROVE  /\ verdict'[o] = verdict[o]
                      /\ verdict[o] # 503 => charged'[o] = charged[o]
    OBVIOUS
  <2>1. verdict \in [Orders -> {0, 200, 400, 402, 503}] /\ charged \in [Orders -> Nat]
    BY DEF OrderInv, TypeOK
  <2>2. ASSUME NEW x \in Orders, Book!Charge(x)
        PROVE  /\ verdict'[o] = verdict[o]
               /\ verdict[o] # 503 => charged'[o] = charged[o]
    BY <2>1, <2>2 DEF Book!Charge
  <2>3. ASSUME NEW x \in Orders, NEW status \in {200, 400, 402, 503},
               Book!Settle(x, status)
        PROVE  /\ verdict'[o] = verdict[o]
               /\ verdict[o] # 503 => charged'[o] = charged[o]
    BY <2>1, <2>3 DEF Book!Settle
  <2>4. CASE UNCHANGED <<charged, verdict>>
    BY <2>4
  <2> QED
    BY <2>2, <2>3, <2>4, StepKeepsBook
       DEF BookStep, Book!Next, Book!vars, Book!Give, Book!Tell, Book!Refill
<1> QED
  BY <1>1, OrderInvariant, PTL DEF Spec
--------------------------------------------------------------------------------
\* The stock.

\* What was given away and what is left make up the shelf and what was added to it.
ShelfOK(p) == /\ IsFiniteSet(Items(p)) /\ IsFiniteSet(Added(p))
              /\ STOCK[p] + Cardinality(Items(p)) = Shelf[p] + Cardinality(Added(p))

ItemsInv == \A p \in Products : ShelfOK(p)

Positive(n) == IF n > 0 THEN n ELSE 0

\* The pairs of an order with the numbers up to n are n, or none, and no other order's.
LEMMA PairsOfOrder ==
    ASSUME NEW o, NEW n \in Int, NEW S, IsFiniteSet(S), \A k : <<o, k>> \notin S
    PROVE  /\ IsFiniteSet(S \cup ({o} \X (1..n)))
           /\ Cardinality(S \cup ({o} \X (1..n))) = Cardinality(S) + Positive(n)
<1> DEFINE new == {o} \X (1..n)
<1>1. CASE n > 0
  <2>1. IsFiniteSet(1..n) /\ Cardinality(1..n) = n
    BY <1>1, FS_Interval
  <2>2. IsFiniteSet({o}) /\ Cardinality({o}) = 1
    BY FS_Singleton
  <2>3. IsFiniteSet(new) /\ Cardinality(new) = n
    <3>1. /\ IsFiniteSet(new)
          /\ Cardinality(new) = Cardinality({o}) * Cardinality(1..n)
      BY <2>1, <2>2, FS_Product, Zenon
    <3>2. 1 * n = n
      OBVIOUS
    <3> QED
      BY <2>1, <2>2, <3>1, <3>2, Zenon
  <2>4. S \cap new = {}
    OBVIOUS
  <2>5. Cardinality(S \cap new) = 0 /\ Cardinality(S) \in Nat
    BY <2>4, FS_EmptySet, FS_CardinalityType
  <2>6. /\ IsFiniteSet(S \cup new)
        /\ Cardinality(S \cup new) =
               Cardinality(S) + Cardinality(new) - Cardinality(S \cap new)
    BY <2>3, FS_Union, Zenon
  <2>7. Cardinality(S \cup new) = Cardinality(S) + n
    <3> HIDE DEF new
    <3> QED
      BY <1>1, <2>3, <2>5, <2>6
  <2> QED
    BY <1>1, <2>6, <2>7 DEF Positive
<1>2. CASE ~(n > 0)
  <2>1. new = {}
    BY <1>2
  <2>2. S \cup new = S
    BY <2>1
  <2>3. Cardinality(S) \in Nat
    BY FS_CardinalityType
  <2>4. Positive(n) = 0
    BY <1>2 DEF Positive
  <2>5. Cardinality(S) = Cardinality(S) + Positive(n)
    BY <2>3, <2>4
  <2> QED
    BY <2>2, <2>5, Zenon
<1> QED
  BY <1>1, <1>2

LEMMA ItemsStep ==
    ASSUME TypeOK, ItemsInv, BookStep
    PROVE  ItemsInv'
<1>1. ASSUME NEW o \in Orders, Book!Give(o)
      PROVE  ItemsInv'
  <2>1. /\ o \notin taken /\ taken' = taken \cup {o}
        /\ STOCK' = [STOCK EXCEPT ![Product[o]] = @ - Quantity[o]]
    BY <1>1 DEF Book!Give, TypeOK
  <2> SUFFICES ASSUME NEW p \in Products PROVE ShelfOK(p)'
    BY DEF ItemsInv
  <2>2. /\ STOCK \in [Products -> Nat] /\ Quantity[o] \in Int /\ Product[o] \in Products
        /\ Shelf[p] \in Nat /\ ShelfOK(p)
    BY Shelves DEF TypeOK, ItemsInv
  <2>3. CASE p = Product[o]
    <3>1. /\ Items(p)' = Items(p) \cup ({o} \X (1..Quantity[o]))
          /\ Added(p)' = Added(p) \cup ({o} \X (1..-Quantity[o]))
      BY <2>1, <2>3 DEF Items, Added, Deducted
    <3>2. /\ \A k : <<o, k>> \notin Items(p)
          /\ \A k : <<o, k>> \notin Added(p)
      BY <2>1 DEF Items, Added, Deducted
    <3>3. IsFiniteSet(Items(p)) /\ IsFiniteSet(Added(p)) /\ -Quantity[o] \in Int
      BY <2>2 DEF ShelfOK
    <3>4. /\ IsFiniteSet(Items(p) \cup ({o} \X (1..Quantity[o])))
          /\ Cardinality(Items(p) \cup ({o} \X (1..Quantity[o]))) =
                 Cardinality(Items(p)) + Positive(Quantity[o])
      BY <2>2, <3>2, <3>3, PairsOfOrder, Zenon
    <3>5. /\ IsFiniteSet(Added(p) \cup ({o} \X (1..-Quantity[o])))
          /\ Cardinality(Added(p) \cup ({o} \X (1..-Quantity[o]))) =
                 Cardinality(Added(p)) + Positive(-Quantity[o])
      BY <3>2, <3>3, PairsOfOrder, Zenon
    <3>6. STOCK'[p] = STOCK[p] - Quantity[o]
      BY <2>1, <2>2, <2>3
    <3>7. /\ Cardinality(Items(p)) \in Nat /\ Cardinality(Added(p)) \in Nat
          /\ STOCK[p] \in Nat
      BY <2>2, FS_CardinalityType DEF ShelfOK
    <3>8. /\ Cardinality(Items(p)') = Cardinality(Items(p)) + Positive(Quantity[o])
          /\ Cardinality(Added(p)') = Cardinality(Added(p)) + Positive(-Quantity[o])
          /\ IsFiniteSet(Items(p)') /\ IsFiniteSet(Added(p)')
      BY <3>1, <3>4, <3>5
    <3>9. STOCK'[p] + Cardinality(Items(p)') = Shelf[p] + Cardinality(Added(p)')
      BY <2>2, <3>6, <3>7, <3>8 DEF ShelfOK, Positive
    <3> QED
      BY <3>8, <3>9 DEF ShelfOK
  <2>4. CASE p # Product[o]
    <3>1. Items(p)' = Items(p) /\ Added(p)' = Added(p)
      BY <2>1, <2>4 DEF Items, Added, Deducted
    <3>2. STOCK'[p] = STOCK[p]
      BY <2>1, <2>2, <2>4
    <3> QED
      BY <2>2, <3>1, <3>2 DEF ShelfOK
  <2> QED
    BY <2>3, <2>4
<1>2. CASE STOCK' = Shelf /\ taken' = {}
  <2> SUFFICES ASSUME NEW p \in Products PROVE ShelfOK(p)'
    BY DEF ItemsInv
  <2>1. Items(p)' = {} /\ Added(p)' = {}
    BY <1>2 DEF Items, Added, Deducted
  <2>2. STOCK'[p] = Shelf[p] /\ Shelf[p] \in Nat
    BY <1>2, Shelves
  <2> QED
    BY <2>1, <2>2, FS_EmptySet DEF ShelfOK
<1>3. CASE UNCHANGED <<STOCK, taken>>
  BY <1>3 DEF ItemsInv, ShelfOK, Items, Added, Deducted
<1> QED
  BY <1>1, <1>2, <1>3
     DEF BookStep, Book!Next, Book!vars, Book!Charge, Book!Settle, Book!Tell, Book!Refill

\* What the inventory service gave away is never more than its shelves held and
\* deductions of less than nothing added (NeverOversold), and its stock is what is
\* left: for any orders, shelves and quantities, negative ones too, however many orders
\* passed check_stock before any of them reached deduct_stock.
THEOREM StockIsNeverOversold == Spec => []NeverOversold
<1>1. Init => ItemsInv
  <2> SUFFICES ASSUME Init, NEW p \in Products PROVE ShelfOK(p)
    BY DEF ItemsInv
  <2>1. Items(p) = {} /\ Added(p) = {}
    BY DEF Init, Items, Added, Deducted
  <2>2. STOCK[p] = Shelf[p] /\ Shelf[p] \in Nat
    BY Shelves DEF Init
  <2> QED
    BY <2>1, <2>2, FS_EmptySet DEF ShelfOK
<1>2. OrderInv /\ ItemsInv /\ [Next]_vars => ItemsInv'
  BY StepKeepsBook, ItemsStep DEF OrderInv
<1>3. OrderInv /\ ItemsInv => NeverOversold
  <2> SUFFICES ASSUME OrderInv, ItemsInv, NEW p \in Products
               PROVE  /\ Cardinality(Items(p)) <= Shelf[p] + Cardinality(Added(p))
                      /\ STOCK[p] = Shelf[p] + Cardinality(Added(p)) - Cardinality(Items(p))
    BY DEF NeverOversold
  <2>1. STOCK[p] \in Nat /\ Shelf[p] \in Nat /\ ShelfOK(p)
    BY Shelves DEF OrderInv, TypeOK, ItemsInv
  <2>2. Cardinality(Items(p)) \in Nat /\ Cardinality(Added(p)) \in Nat
    BY <2>1, FS_CardinalityType DEF ShelfOK
  <2> QED
    BY <2>1, <2>2 DEF ShelfOK
<1> QED
  BY <1>1, <1>2, <1>3, OrderInvariant, PTL DEF Spec
================================================================================
