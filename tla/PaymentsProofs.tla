-------------------------- MODULE PaymentsProofs --------------------------
(***************************************************************************)
(* Theorems about Payments, for every number of users, orders and          *)
(* concurrent handlers and every bound on failures and duplicates: the     *)
(* type invariant, that an order grants its pack at most once and returns  *)
(* at most that, that a 200 for order_created means a recorded order, and  *)
(* what a refund does and leaves alone.                                    *)
(***************************************************************************)
EXTENDS Payments, TLAPS

Ledger == [granted : [Orders -> Nat], taken : [Orders -> Nat]]
CallPc == {"idle", "parsed", "inserted", "absent", "locked"}

---------------------------------------------------------------------------
(* Helpers *)

\* The smaller of two balances is one of them.
LEMMA MinOfTwo ==
  ASSUME NEW a \in Nat, NEW b \in Nat
  PROVE  /\ Min({a, b}) \in {a, b}
         /\ Min({a, b}) <= a /\ Min({a, b}) <= b
<1>1. CASE a <= b
  <2>1. \E x \in {a, b} : \A y \in {a, b} : x =< y
    BY <1>1
  <2> QED
    BY <2>1 DEF Min
<1>2. CASE b <= a
  <2>1. \E x \in {a, b} : \A y \in {a, b} : x =< y
    BY <1>2
  <2> QED
    BY <2>1 DEF Min
<1> QED
  BY <1>1, <1>2

\* A refund takes no more than the payment holds and the balance has.
LEMMA RecoverableBounds ==
  ASSUME TypeOK, NEW o \in Orders
  PROVE  /\ Recoverable(o) \in Nat
         /\ Recoverable(o) <= payments[o].credits
         /\ Recoverable(o) <= credits[Buyer[o]]
         /\ payments[o].status = "paid" =>
              Recoverable(o) \in {payments[o].credits, credits[Buyer[o]]}
<1>1. payments[o].credits \in Nat /\ credits[Buyer[o]] \in Nat
  BY BuyerAssumption DEF TypeOK, Payment
<1> QED
  BY <1>1, MinOfTwo DEF Recoverable

---------------------------------------------------------------------------
(* Types *)

\* A running call is about an order.
BusyInv == \A h \in Handlers : handler[h].pc # "idle" => handler[h].order \in Orders

LEMMA IdleType == Idle \in Call
BY DEF Idle, Call, Events

LEMMA GotoType ==
  ASSUME NEW h \in Handlers, NEW pc \in CallPc, TypeOK, BusyInv,
         handler[h].pc # "idle", Goto(h, pc)
  PROVE  handler' \in [Handlers -> Call] /\ BusyInv'
<1>1. [handler[h] EXCEPT !.pc = pc] \in Call
  BY DEF TypeOK, Call, CallPc
<1>2. handler' \in [Handlers -> Call]
  BY <1>1 DEF TypeOK, Goto
<1>3. BusyInv'
  BY DEF BusyInv, Goto, TypeOK, Call
<1> QED
  BY <1>2, <1>3

LEMMA AnswerType ==
  ASSUME NEW h \in Handlers, TypeOK, BusyInv, handler[h].pc # "idle", Answer(h)
  PROVE  /\ handler' \in [Handlers -> Call] /\ BusyInv'
         /\ answered' \in [Orders -> SUBSET Events]
<1>1. handler' \in [Handlers -> Call] /\ BusyInv'
  BY IdleType DEF TypeOK, Answer, BusyInv, Idle
<1>2. handler[h].order \in Orders /\ handler[h].event \in Events
  BY DEF BusyInv, TypeOK, Call
<1>3. answered' \in [Orders -> SUBSET Events]
  BY <1>2 DEF Answer, TypeOK
<1> QED
  BY <1>1, <1>3

LEMMA StartType ==
  ASSUME NEW h \in Handlers, NEW o \in Orders, NEW e \in Events, TypeOK, BusyInv,
         Start(h, o, e)
  PROVE  handler' \in [Handlers -> Call] /\ BusyInv'
<1>1. [pc |-> "parsed", order |-> o, event |-> e] \in Call
  BY DEF Call
<1> QED
  BY <1>1 DEF TypeOK, Start, BusyInv

LEMMA TypeInit == Init => TypeOK /\ BusyInv
<1> SUFFICES ASSUME Init PROVE TypeOK /\ BusyInv
  OBVIOUS
<1>1. payments \in [Orders -> Payment]
  BY DEF Init, NoPayment, Payment
<1>2. handler \in [Handlers -> Call] /\ BusyInv
  BY IdleType DEF Init, BusyInv, Idle
<1>3. ledger \in Ledger
  BY DEF Init, Ledger
<1> QED
  BY <1>1, <1>2, <1>3, CreditAssumption, BoundAssumption DEF Init, TypeOK, Ledger

LEMMA TypeStep == TypeOK /\ BusyInv /\ [Next]_vars => TypeOK' /\ BusyInv'
<1> SUFFICES ASSUME TypeOK, BusyInv, [Next]_vars PROVE TypeOK' /\ BusyInv'
  OBVIOUS
<1> DEFINE Good == TypeOK /\ BusyInv
<1>1. ASSUME NEW o \in Orders, Send(o) PROVE Good'
  BY <1>1 DEF Send, TypeOK, BusyInv
<1>2. ASSUME NEW o \in Orders, NEW e \in Events, Deliver(o, e) PROVE Good'
  BY <1>2, StartType DEF Deliver, TypeOK
<1>3. ASSUME NEW o \in Orders, NEW e \in Events, Redeliver(o, e) PROVE Good'
  <2>1. handler' \in [Handlers -> Call] /\ BusyInv'
    BY <1>3, StartType DEF Redeliver
  <2>2. duplicates' \in 0..MaxDuplicates
    BY <1>3, BoundAssumption DEF Redeliver, TypeOK
  <2> QED
    BY <1>3, <2>1, <2>2 DEF Redeliver, TypeOK
<1>4. ASSUME NEW h \in Handlers, Ignore(h) PROVE Good'
  BY <1>4, AnswerType DEF Ignore, TypeOK
<1>5. ASSUME NEW h \in Handlers, InsertOrder(h) PROVE Good'
  <2>1. CASE Recorded(handler[h].order)
    BY <1>5, <2>1, AnswerType DEF InsertOrder, TypeOK, At
  <2>2. CASE ~Recorded(handler[h].order)
    BY <1>5, <2>2, GotoType DEF InsertOrder, TypeOK, At, CallPc
  <2> QED
    BY <2>1, <2>2
<1>6. ASSUME NEW h \in Handlers, CommitOrder(h) PROVE Good'
  <2> DEFINE o == handler[h].order
  <2>1. o \in Orders /\ Pack[o] \in Nat /\ Buyer[o] \in Users
    BY <1>6, PackAssumption, BuyerAssumption DEF CommitOrder, At, BusyInv
  <2>2. [status |-> IF Pack[o] > 0 THEN "paid" ELSE "unmatched", credits |-> Pack[o]]
          \in Payment
    BY <2>1 DEF Payment
  <2>3. payments' \in [Orders -> Payment]
    BY <1>6, <2>1, <2>2 DEF CommitOrder, TypeOK
  <2>4. credits' \in [Users -> Nat]
    BY <1>6, <2>1 DEF CommitOrder, TypeOK
  <2>5. ledger' \in Ledger
    BY <1>6, <2>1 DEF CommitOrder, TypeOK, Ledger
  <2> QED
    BY <1>6, <2>3, <2>4, <2>5, AnswerType DEF CommitOrder, TypeOK, At, Ledger
<1>7. ASSUME NEW h \in Handlers, SelectOrder(h) PROVE Good'
  <2>1. CASE Answer(h)
    BY <1>7, <2>1, AnswerType DEF SelectOrder, TypeOK, At
  <2>2. CASE Goto(h, "absent") /\ UNCHANGED answered
    BY <1>7, <2>2, GotoType DEF SelectOrder, TypeOK, At, CallPc
  <2>3. CASE Goto(h, "locked") /\ UNCHANGED answered
    BY <1>7, <2>3, GotoType DEF SelectOrder, TypeOK, At, CallPc
  <2> QED
    BY <1>7, <2>1, <2>2, <2>3 DEF SelectOrder
<1>8. ASSUME NEW h \in Handlers, RecordRefund(h) PROVE Good'
  <2>1. payments' \in [Orders -> Payment]
    BY <1>8 DEF RecordRefund, TypeOK, Payment
  <2> QED
    BY <1>8, <2>1, AnswerType DEF RecordRefund, TypeOK, At
<1>9. ASSUME NEW h \in Handlers, ApplyRefund(h) PROVE Good'
  <2> DEFINE o == handler[h].order
  <2>1. o \in Orders /\ Buyer[o] \in Users
    BY <1>9, BuyerAssumption DEF ApplyRefund, At, BusyInv
  <2>2. /\ Recoverable(o) \in Nat
        /\ Recoverable(o) <= credits[Buyer[o]]
    BY <2>1, RecoverableBounds
  <2>3. payments' \in [Orders -> Payment]
    BY <1>9, <2>1 DEF ApplyRefund, TypeOK, Payment
  <2>4. credits' \in [Users -> Nat]
    BY <1>9, <2>1, <2>2 DEF ApplyRefund, TypeOK
  <2>5. ledger' \in Ledger
    BY <1>9, <2>1, <2>2 DEF ApplyRefund, TypeOK, Ledger
  <2> QED
    BY <1>9, <2>3, <2>4, <2>5, AnswerType DEF ApplyRefund, TypeOK, At, Ledger
<1>10. ASSUME NEW h \in Handlers, Fail(h) PROVE Good'
  <2>1. failures' \in 0..MaxFailures
    BY <1>10, BoundAssumption DEF Fail, TypeOK
  <2>2. handler' \in [Handlers -> Call] /\ BusyInv'
    BY <1>10, IdleType DEF Fail, TypeOK, BusyInv, Idle
  <2> QED
    BY <1>10, <2>1, <2>2 DEF Fail, TypeOK
<1>11. ASSUME NEW u \in Users, Spend(u) PROVE Good'
  BY <1>11 DEF Spend, TypeOK, BusyInv
<1>12. CASE UNCHANGED vars
  BY <1>12 DEF vars, TypeOK, BusyInv
<1> QED
  BY <1>1, <1>2, <1>3, <1>4, <1>5, <1>6, <1>7, <1>8, <1>9, <1>10, <1>11, <1>12
     DEF Next, Webhooks, Handle

\* Every reachable state is well typed; in particular no balance is negative.
THEOREM PaymentsTyped == Spec => []TypeOK
<1>1. Init => TypeOK /\ BusyInv
  BY TypeInit
<1>2. TypeOK /\ BusyInv /\ [Next]_vars => (TypeOK /\ BusyInv)'
  BY TypeStep
<1> QED
  BY <1>1, <1>2, PTL DEF Spec

---------------------------------------------------------------------------
(* Transactions *)

\* What a handler between two statements can rely on: nobody recorded the
\* order it has inserted, and the payment it has locked is not refunded.
HeldInv ==
  \A h \in Handlers :
    /\ handler[h].pc = "inserted" => /\ handler[h].event = "order_created"
                                     /\ ~Recorded(handler[h].order)
    /\ handler[h].pc = "locked" =>
         payments[handler[h].order].status \in {"paid", "unmatched"}

\* One transaction at a time has inserted an order, and one has it locked.
AloneInv ==
  \A g, h \in Handlers :
    /\ handler[g].pc \in {"inserted", "locked"}
    /\ handler[g].pc = handler[h].pc /\ handler[g].order = handler[h].order
    => g = h

\* What a payment says about the credits that its order moved.
MovedInv ==
  \A o \in Orders :
    /\ payments[o].status = "none" => ledger.granted[o] = 0 /\ ledger.taken[o] = 0
    /\ payments[o].status \in {"paid", "unmatched"} =>
         /\ payments[o].credits = Pack[o]
         /\ ledger.granted[o] = Pack[o] /\ ledger.taken[o] = 0
    /\ payments[o].status = "unmatched" => Pack[o] = 0
    /\ ledger.granted[o] <= Pack[o]
    /\ ledger.taken[o] <= ledger.granted[o]

PaymentsInv == TypeOK /\ BusyInv /\ HeldInv /\ AloneInv /\ MovedInv

\* A step that leaves the payments and the ledger alone, and takes no handler
\* into a transaction, keeps the invariants of both.
LEMMA HandlersLeave ==
  ASSUME TypeOK, HeldInv, AloneInv, MovedInv,
         payments' = payments, ledger' = ledger, TypeOK',
         \A h \in Handlers : handler'[h] # handler[h] =>
           handler'[h].pc \notin {"inserted", "locked"}
  PROVE  HeldInv' /\ AloneInv' /\ MovedInv'
<1>1. HeldInv'
  BY DEF HeldInv, Recorded
<1>2. AloneInv'
  <2> SUFFICES ASSUME NEW g \in Handlers, NEW h \in Handlers,
                      handler'[g].pc \in {"inserted", "locked"},
                      handler'[g].pc = handler'[h].pc,
                      handler'[g].order = handler'[h].order
               PROVE  g = h
    BY DEF AloneInv
  <2>1. handler'[g] = handler[g] /\ handler'[h] = handler[h]
    OBVIOUS
  <2> QED
    BY <2>1 DEF AloneInv
<1>3. MovedInv'
  BY DEF MovedInv
<1> QED
  BY <1>1, <1>2, <1>3

\* The same when one handler enters a transaction that no other one is in.
LEMMA HandlerEnters ==
  ASSUME TypeOK, HeldInv, AloneInv, MovedInv,
         payments' = payments, ledger' = ledger,
         NEW h \in Handlers, NEW pc \in {"inserted", "locked"}, Goto(h, pc),
         pc = "inserted" => /\ handler[h].event = "order_created"
                            /\ ~Recorded(handler[h].order) /\ ~Inserting(handler[h].order),
         pc = "locked" => /\ payments[handler[h].order].status \in {"paid", "unmatched"}
                          /\ ~Locked(handler[h].order)
  PROVE  HeldInv' /\ AloneInv' /\ MovedInv'
<1>1. /\ handler'[h].pc = pc /\ handler'[h].order = handler[h].order
      /\ handler'[h].event = handler[h].event
      /\ \A g \in Handlers \ {h} : handler'[g] = handler[g]
  BY DEF Goto, TypeOK, Call
<1>2. HeldInv'
  BY <1>1 DEF HeldInv, Recorded
<1>3. \A g \in Handlers \ {h} :
        ~(handler'[g].pc = pc /\ handler'[g].order = handler'[h].order)
  BY <1>1 DEF Inserting, Locked
<1>4. AloneInv'
  BY <1>1, <1>3 DEF AloneInv
<1>5. MovedInv'
  BY DEF MovedInv
<1> QED
  BY <1>2, <1>4, <1>5

\* The same when a handler ends, whose commit changed the row of its order
\* while no other handler was in a transaction that rests on this row.
LEMMA HandlerEnds ==
  ASSUME TypeOK, TypeOK', HeldInv, AloneInv,
         NEW h \in Handlers, handler' = [handler EXCEPT ![h] = Idle],
         \A o \in Orders \ {handler[h].order} : payments'[o] = payments[o],
         BusyInv,
         \A g \in Handlers \ {h} : handler[g].pc \in {"inserted", "locked"} =>
           handler[g].order # handler[h].order
  PROVE  HeldInv' /\ AloneInv'
<1>1. /\ handler'[h].pc = "idle"
      /\ \A g \in Handlers \ {h} : handler'[g] = handler[g]
  BY DEF TypeOK, Idle
<1>2. \A g \in Handlers \ {h} : handler[g].pc \in {"inserted", "locked"} =>
        payments'[handler[g].order] = payments[handler[g].order]
  BY DEF BusyInv
<1>3. HeldInv'
  BY <1>1, <1>2 DEF HeldInv, Recorded
<1>4. AloneInv'
  BY <1>1 DEF AloneInv
<1> QED
  BY <1>3, <1>4

LEMMA PaymentsInit == Init => PaymentsInv
<1> SUFFICES ASSUME Init PROVE PaymentsInv
  OBVIOUS
<1>1. HeldInv /\ AloneInv
  BY DEF Init, HeldInv, AloneInv, Idle
<1>2. MovedInv
  BY PackAssumption DEF Init, MovedInv, NoPayment
<1> QED
  BY <1>1, <1>2, TypeInit DEF PaymentsInv

\* The handlers that write a payment, or enter a transaction, keep it whole.
LEMMA PaymentsStep == PaymentsInv /\ [Next]_vars => PaymentsInv'
<1> SUFFICES ASSUME PaymentsInv, [Next]_vars PROVE PaymentsInv'
  OBVIOUS
<1> USE DEF PaymentsInv
<1> TypeOK' /\ BusyInv'
  BY TypeStep
<1> DEFINE Good == HeldInv /\ AloneInv /\ MovedInv
<1>1. ASSUME NEW o \in Orders, Send(o) PROVE Good'
  BY <1>1, HandlersLeave DEF Send
<1>2. ASSUME NEW o \in Orders, NEW e \in Events, Deliver(o, e) \/ Redeliver(o, e) PROVE Good'
  <2>1. PICK h \in Handlers : Start(h, o, e)
    BY <1>2 DEF Deliver, Redeliver
  <2>2. \A g \in Handlers : handler'[g] # handler[g] => handler'[g].pc = "parsed"
    BY <2>1 DEF Start, TypeOK
  <2> QED
    BY <1>2, <2>2, HandlersLeave DEF Deliver, Redeliver
<1>3. ASSUME NEW h \in Handlers, Ignore(h) PROVE Good'
  <2>1. \A g \in Handlers : handler'[g] # handler[g] => handler'[g].pc = "idle"
    BY <1>3 DEF Ignore, Answer, Idle, TypeOK
  <2> QED
    BY <1>3, <2>1, HandlersLeave DEF Ignore
<1>4. ASSUME NEW h \in Handlers, InsertOrder(h) PROVE Good'
  <2>1. CASE Recorded(handler[h].order)
    <3>1. \A g \in Handlers : handler'[g] # handler[g] => handler'[g].pc = "idle"
      BY <1>4, <2>1 DEF InsertOrder, Answer, Idle, TypeOK
    <3> QED
      BY <1>4, <3>1, HandlersLeave DEF InsertOrder
  <2>2. CASE ~Recorded(handler[h].order)
    BY <1>4, <2>2, HandlerEnters DEF InsertOrder, At
  <2> QED
    BY <2>1, <2>2
<1>5. ASSUME NEW h \in Handlers, CommitOrder(h) PROVE Good'
  <2> DEFINE o == handler[h].order
  <2>1. /\ o \in Orders /\ Pack[o] \in Nat /\ payments[o].status = "none"
        /\ handler[h].pc = "inserted"
    BY <1>5, PackAssumption DEF CommitOrder, At, BusyInv, HeldInv, Recorded
  <2>2. \A g \in Handlers \ {h} : handler[g].pc \in {"inserted", "locked"} =>
          handler[g].order # o
    BY <2>1 DEF AloneInv, HeldInv
  <2>3. \A p \in Orders \ {o} : payments'[p] = payments[p]
    BY <1>5 DEF CommitOrder, TypeOK
  <2>4. handler' = [handler EXCEPT ![h] = Idle]
    BY <1>5 DEF CommitOrder, Answer
  <2>5. HeldInv' /\ AloneInv'
    BY <2>2, <2>3, <2>4, HandlerEnds
  <2>6. /\ payments'[o].status \in {"paid", "unmatched"} /\ payments'[o].credits = Pack[o]
        /\ ledger'.granted[o] = Pack[o] /\ ledger'.taken[o] = 0
        /\ payments'[o].status = "unmatched" => Pack[o] = 0
    BY <1>5, <2>1 DEF CommitOrder, MovedInv, TypeOK
  <2>7. \A p \in Orders \ {o} : /\ ledger'.granted[p] = ledger.granted[p]
                                /\ ledger'.taken[p] = ledger.taken[p]
    BY <1>5 DEF CommitOrder, TypeOK
  <2>8. MovedInv'
    BY <2>1, <2>3, <2>6, <2>7 DEF MovedInv
  <2> QED
    BY <2>5, <2>8
<1>6. ASSUME NEW h \in Handlers, SelectOrder(h) PROVE Good'
  <2>1. CASE payments[handler[h].order].status \in {"paid", "unmatched"}
    BY <1>6, <2>1, HandlerEnters DEF SelectOrder
  <2>2. CASE payments[handler[h].order].status \notin {"paid", "unmatched"}
    <3>1. \A g \in Handlers : handler'[g] # handler[g] => handler'[g].pc \in {"idle", "absent"}
      BY <1>6, <2>2 DEF SelectOrder, Answer, Goto, Idle, TypeOK, Call
    <3> QED
      BY <1>6, <3>1, HandlersLeave DEF SelectOrder
  <2> QED
    BY <2>1, <2>2
<1>7. ASSUME NEW h \in Handlers, RecordRefund(h) PROVE Good'
  <2> DEFINE o == handler[h].order
  <2>1. o \in Orders /\ handler' = [handler EXCEPT ![h] = Idle]
    BY <1>7 DEF RecordRefund, At, BusyInv, Answer
  <2>2. CASE Recorded(o)
    <3>1. \A g \in Handlers : handler'[g] # handler[g] => handler'[g].pc = "idle"
      BY <2>1 DEF Idle, TypeOK
    <3> QED
      BY <1>7, <2>2, <3>1, HandlersLeave DEF RecordRefund
  <2>3. CASE ~Recorded(o)
    <3>1. payments' = [payments EXCEPT ![o] = [status |-> "refunded", credits |-> 0]]
      BY <1>7, <2>3 DEF RecordRefund
    <3>2. \A g \in Handlers \ {h} : handler[g].pc \in {"inserted", "locked"} =>
            handler[g].order # o
      BY <1>7, <2>3 DEF RecordRefund, Inserting, HeldInv, Recorded
    <3>3. \A p \in Orders \ {o} : payments'[p] = payments[p]
      BY <3>1 DEF TypeOK
    <3>4. HeldInv' /\ AloneInv'
      BY <2>1, <3>2, <3>3, HandlerEnds
    <3>5. payments'[o].status = "refunded" /\ ledger' = ledger
      BY <1>7, <2>1, <3>1 DEF RecordRefund, TypeOK
    <3>6. MovedInv'
      BY <3>3, <3>5 DEF MovedInv
    <3> QED
      BY <3>4, <3>6
  <2> QED
    BY <2>2, <2>3
<1>8. ASSUME NEW h \in Handlers, ApplyRefund(h) PROVE Good'
  <2> DEFINE o == handler[h].order
  <2>1. /\ o \in Orders /\ payments[o].status \in {"paid", "unmatched"}
        /\ handler[h].pc = "locked" /\ handler' = [handler EXCEPT ![h] = Idle]
    BY <1>8 DEF ApplyRefund, At, BusyInv, HeldInv, Answer
  <2>2. \A g \in Handlers \ {h} : handler[g].pc \in {"inserted", "locked"} =>
          handler[g].order # o
    BY <2>1 DEF AloneInv, HeldInv, Recorded
  <2>3. \A p \in Orders \ {o} : payments'[p] = payments[p]
    BY <1>8 DEF ApplyRefund, TypeOK
  <2>4. HeldInv' /\ AloneInv'
    BY <2>1, <2>2, <2>3, HandlerEnds
  <2>5. Recoverable(o) \in Nat /\ Recoverable(o) <= payments[o].credits
    BY <2>1, RecoverableBounds
  <2>6. /\ payments'[o].status = "refunded"
        /\ ledger'.granted[o] = Pack[o] /\ ledger'.taken[o] = Recoverable(o)
    BY <1>8, <2>1, <2>5 DEF ApplyRefund, MovedInv, TypeOK
  <2>7. \A p \in Orders \ {o} : /\ ledger'.granted[p] = ledger.granted[p]
                                /\ ledger'.taken[p] = ledger.taken[p]
    BY <1>8 DEF ApplyRefund, TypeOK
  <2>8. payments[o].credits = Pack[o] /\ Pack[o] \in Nat
    BY <2>1, PackAssumption DEF MovedInv
  <2>9. MovedInv'
    BY <2>3, <2>5, <2>6, <2>7, <2>8 DEF MovedInv
  <2> QED
    BY <2>4, <2>9
<1>9. ASSUME NEW h \in Handlers, Fail(h) PROVE Good'
  <2>1. \A g \in Handlers : handler'[g] # handler[g] => handler'[g].pc = "idle"
    BY <1>9 DEF Fail, Idle, TypeOK
  <2> QED
    BY <1>9, <2>1, HandlersLeave DEF Fail
<1>10. ASSUME NEW u \in Users, Spend(u) PROVE Good'
  BY <1>10, HandlersLeave DEF Spend
<1>11. CASE UNCHANGED vars
  BY <1>11, HandlersLeave DEF vars
<1> QED
  BY <1>1, <1>2, <1>3, <1>4, <1>5, <1>6, <1>7, <1>8, <1>9, <1>10, <1>11
     DEF Next, Webhooks, Handle

LEMMA PaymentsAlways == Spec => []PaymentsInv
  BY PaymentsInit, PaymentsStep, PTL DEF Spec

\* An order grants its pack at most once and a refund takes back at most what
\* the order granted, for any number of concurrent and repeated webhooks.
THEOREM OrdersGrantOnce == Spec => []GrantedOnce
<1>1. PaymentsInv => GrantedOnce
  BY DEF PaymentsInv, MovedInv, GrantedOnce
<1> QED
  BY <1>1, PaymentsAlways, PTL
---------------------------------------------------------------------------
(* What a refund does and what it leaves alone *)

\* Only three statements write a payment or its ledger.
Writes(h) == CommitOrder(h) \/ RecordRefund(h) \/ ApplyRefund(h)

LEMMA OnlyWritesChange ==
  ASSUME PaymentsInv, [Next]_vars, NEW o \in Orders
  PROVE  \/ /\ payments'[o] = payments[o]
            /\ ledger'.granted[o] = ledger.granted[o] /\ ledger'.taken[o] = ledger.taken[o]
         \/ \E h \in Handlers : handler[h].order = o /\ Writes(h)
<1> DEFINE Still == /\ payments'[o] = payments[o]
                   /\ ledger'.granted[o] = ledger.granted[o]
                   /\ ledger'.taken[o] = ledger.taken[o]
<1>1. ASSUME NEW h \in Handlers, Writes(h), handler[h].order # o PROVE Still
  <2>1. handler[h].order \in Orders
    BY <1>1 DEF Writes, CommitOrder, RecordRefund, ApplyRefund, At, PaymentsInv, BusyInv
  <2>2. CASE CommitOrder(h)
    BY <1>1, <2>1, <2>2 DEF CommitOrder, PaymentsInv, TypeOK
  <2>3. CASE RecordRefund(h)
    BY <1>1, <2>1, <2>3 DEF RecordRefund, PaymentsInv, TypeOK
  <2>4. CASE ApplyRefund(h)
    BY <1>1, <2>1, <2>4 DEF ApplyRefund, PaymentsInv, TypeOK
  <2> QED
    BY <1>1, <2>2, <2>3, <2>4 DEF Writes
<1>2. CASE \E h \in Handlers : Writes(h)
  BY <1>1, <1>2
<1>3. CASE ~\E h \in Handlers : Writes(h)
  <2>1. payments' = payments /\ ledger' = ledger
    BY <1>3 DEF Writes, Next, Webhooks, Handle, Send, Deliver, Redeliver, Ignore,
       InsertOrder, SelectOrder, Fail, Spend, vars
  <2> QED
    BY <2>1
<1> QED
  BY <1>2, <1>3

LEMMA RefundedStays ==
  ASSUME PaymentsInv, [Next]_vars, NEW o \in Orders, payments[o].status = "refunded"
  PROVE  /\ payments'[o] = payments[o]
         /\ ledger'.granted[o] = ledger.granted[o]
<1>1. ASSUME NEW h \in Handlers, handler[h].order = o, Writes(h)
      PROVE  payments' = payments /\ ledger' = ledger
  <2>1. ~CommitOrder(h)
    BY <1>1 DEF CommitOrder, At, PaymentsInv, HeldInv, Recorded
  <2>2. ~ApplyRefund(h)
    BY <1>1 DEF ApplyRefund, At, PaymentsInv, HeldInv
  <2>3. RecordRefund(h) => payments' = payments /\ ledger' = ledger
    BY <1>1 DEF RecordRefund, Recorded
  <2> QED
    BY <1>1, <2>1, <2>2, <2>3 DEF Writes
<1> QED
  BY <1>1, OnlyWritesChange

\* A refunded order stays refunded and grants nothing any more.
THEOREM RefundsAreFinal == Spec => RefundedIsFinal
<1> DEFINE Final == \A o \in Orders : payments[o].status = "refunded" =>
                      /\ payments'[o] = payments[o]
                      /\ ledger'.granted[o] = ledger.granted[o]
<1>1. PaymentsInv /\ [Next]_vars => Final
  BY RefundedStays
<1>2. Spec => [][Final]_vars
  BY <1>1, PaymentsAlways, PTL DEF Spec
<1> QED
  BY <1>2 DEF RefundedIsFinal

\* A refund takes the whole pack back, or all that is left of the balance.
THEOREM RefundsTakeAll == Spec => RefundTakesAll
<1> DEFINE Takes == \A o \in Orders :
                      payments[o].status = "paid" /\ payments'[o].status = "refunded" =>
                        ledger'.taken[o] = Pack[o] \/ credits'[Buyer[o]] = 0
<1>1. PaymentsInv /\ [Next]_vars => Takes
  <2> SUFFICES ASSUME PaymentsInv, [Next]_vars, NEW o \in Orders,
                      payments[o].status = "paid", payments'[o].status = "refunded"
               PROVE  ledger'.taken[o] = Pack[o] \/ credits'[Buyer[o]] = 0
    OBVIOUS
  <2>1. PICK h \in Handlers : handler[h].order = o /\ Writes(h)
    BY OnlyWritesChange
  <2>2. ApplyRefund(h)
    <3>1. ~CommitOrder(h)
      BY <2>1 DEF CommitOrder, At, PaymentsInv, HeldInv, Recorded
    <3>2. ~RecordRefund(h)
      BY <2>1 DEF RecordRefund, Recorded
    <3> QED
      BY <2>1, <3>1, <3>2 DEF Writes
  <2>3. /\ payments[o].credits = Pack[o] /\ ledger.taken[o] = 0 /\ Pack[o] \in Nat
        /\ Buyer[o] \in Users /\ credits[Buyer[o]] \in Nat
    BY PackAssumption, BuyerAssumption DEF PaymentsInv, MovedInv, TypeOK
  <2>4. Recoverable(o) \in {Pack[o], credits[Buyer[o]]}
    BY <2>3, RecoverableBounds DEF PaymentsInv
  <2>5. /\ ledger'.taken[o] = Recoverable(o)
        /\ credits'[Buyer[o]] = credits[Buyer[o]] - Recoverable(o)
    BY <2>1, <2>2, <2>3, <2>4 DEF ApplyRefund, PaymentsInv, TypeOK
  <2> QED
    BY <2>3, <2>4, <2>5
<1>2. Spec => [][Takes]_vars
  BY <1>1, PaymentsAlways, PTL DEF Spec
<1> QED
  BY <1>2 DEF RefundTakesAll

---------------------------------------------------------------------------
(* What a 200 means *)

LEMMA RecordedStays ==
  ASSUME PaymentsInv, [Next]_vars, NEW o \in Orders, Recorded(o)
  PROVE  Recorded(o)'
<1>1. ASSUME NEW h \in Handlers, handler[h].order = o, Writes(h) PROVE Recorded(o)'
  <2>1. CASE CommitOrder(h)
    BY <1>1, <2>1 DEF CommitOrder, PaymentsInv, TypeOK, Recorded
  <2>2. CASE RecordRefund(h)
    BY <1>1, <2>2 DEF RecordRefund, Recorded
  <2>3. CASE ApplyRefund(h)
    BY <1>1, <2>3 DEF ApplyRefund, PaymentsInv, TypeOK, Recorded
  <2> QED
    BY <1>1, <2>1, <2>2, <2>3 DEF Writes
<1> QED
  BY <1>1, OnlyWritesChange DEF Recorded

\* A new 200 is the answer of one call.
LEMMA NewAnswers ==
  ASSUME PaymentsInv, [Next]_vars, NEW o \in Orders, NEW e \in answered'[o] \ answered[o]
  PROVE  \E h \in Handlers : /\ handler[h].order = o /\ handler[h].event = e
                             /\ Handle(h) /\ Answer(h)
<1>1. ASSUME NEW h \in Handlers, Handle(h), Answer(h)
      PROVE  handler[h].order = o /\ handler[h].event = e
  BY <1>1 DEF Answer, PaymentsInv, TypeOK
<1>2. PICK h \in Handlers : Handle(h)
  BY DEF Next, Webhooks, Send, Deliver, Redeliver, Fail, Spend, vars
<1>3. Answer(h)
  BY <1>2 DEF Handle, Ignore, InsertOrder, CommitOrder, SelectOrder, RecordRefund, ApplyRefund
<1> QED
  BY <1>1, <1>2, <1>3

\* A 200 for order_created means the order is on record.
THEOREM CreatedOrdersAreRecorded == Spec => []CreatedIsRecorded
<1>1. Init => CreatedIsRecorded
  BY DEF Init, CreatedIsRecorded
<1>2. PaymentsInv /\ CreatedIsRecorded /\ [Next]_vars => CreatedIsRecorded'
  <2> SUFFICES ASSUME PaymentsInv, CreatedIsRecorded, [Next]_vars, NEW o \in Orders,
                      "order_created" \in answered'[o], ~Skips(o, "order_created")
               PROVE  Recorded(o)'
    BY DEF CreatedIsRecorded, Skips
  <2>1. CASE "order_created" \in answered[o]
    BY <2>1, RecordedStays DEF CreatedIsRecorded
  <2>2. CASE "order_created" \notin answered[o]
    <3>1. PICK h \in Handlers : /\ handler[h].order = o /\ handler[h].event = "order_created"
                               /\ Handle(h) /\ Answer(h)
      BY <2>2, NewAnswers
    <3>2. InsertOrder(h) \/ CommitOrder(h)
      BY <3>1 DEF Handle, Ignore, SelectOrder, RecordRefund, ApplyRefund, At
    <3>3. CASE InsertOrder(h)
      <4>1. Recorded(o)
        BY <3>1, <3>3 DEF InsertOrder, Answer, Goto, At, PaymentsInv, TypeOK, Call, Idle
      <4> QED
        BY <4>1, RecordedStays
    <3>4. CASE CommitOrder(h)
      BY <3>1, <3>4 DEF CommitOrder, PaymentsInv, TypeOK, Recorded
    <3> QED
      BY <3>2, <3>3, <3>4
  <2> QED
    BY <2>1, <2>2
<1> QED
  BY <1>1, <1>2, PaymentsAlways, PTL DEF Spec

---------------------------------------------------------------------------
(* One webhook at a time *)

OneHandler == \A g, h \in Handlers : g = h

\* A refund that saw no row still sees none when it inserts one.
AbsentInv == \A h \in Handlers : handler[h].pc = "absent" => ~Recorded(handler[h].order)

LEMMA AbsentStep ==
  ASSUME OneHandler, PaymentsInv, AbsentInv, [Next]_vars
  PROVE  AbsentInv'
<1> USE DEF PaymentsInv
<1> SUFFICES ASSUME NEW h \in Handlers, handler'[h].pc = "absent"
             PROVE  ~Recorded(handler[h].order)'
  BY DEF AbsentInv, Recorded
<1>1. CASE \E o \in Orders, e \in Events : Start(h, o, e)
  BY <1>1 DEF Start, TypeOK
<1>2. CASE SelectOrder(h)
  <2>1. Goto(h, "absent") /\ payments[handler[h].order].status = "none"
    BY <1>2 DEF SelectOrder, Answer, Goto, Idle, TypeOK, Call
  <2>2. handler'[h].order = handler[h].order /\ payments' = payments
    BY <1>2, <2>1 DEF SelectOrder, Goto, TypeOK, Call
  <2> QED
    BY <2>1, <2>2 DEF Recorded
<1>3. CASE Ignore(h) \/ InsertOrder(h) \/ CommitOrder(h) \/ RecordRefund(h) \/ ApplyRefund(h)
  BY <1>3 DEF Ignore, InsertOrder, CommitOrder, RecordRefund, ApplyRefund,
              Answer, Goto, Idle, TypeOK, Call
<1>4. CASE Fail(h)
  BY <1>4 DEF Fail, Idle, TypeOK
<1>5. CASE handler' = handler /\ payments' = payments
  BY <1>5 DEF AbsentInv, Recorded
<1> QED
  <2>1. \/ \E g \in Handlers : \/ \E o \in Orders, e \in Events : Start(g, o, e)
                               \/ Handle(g) \/ Fail(g)
        \/ handler' = handler /\ payments' = payments
    BY DEF Next, Webhooks, Send, Deliver, Redeliver, Spend, vars
  <2> QED
    BY <1>1, <1>2, <1>3, <1>4, <1>5, <2>1 DEF OneHandler, Handle

LEMMA RefundRecordedStep ==
  ASSUME OneHandler, PaymentsInv, AbsentInv, RefundIsRecorded, [Next]_vars
  PROVE  RefundIsRecorded'
<1> SUFFICES ASSUME NEW o \in Orders, "order_refunded" \in answered'[o],
                    ~Skips(o, "order_refunded")
             PROVE  payments'[o].status = "refunded"
  BY DEF RefundIsRecorded, Skips
<1>1. CASE "order_refunded" \in answered[o]
  BY <1>1, RefundedStays DEF RefundIsRecorded
<1>2. CASE "order_refunded" \notin answered[o]
  <2>1. PICK h \in Handlers : /\ handler[h].order = o /\ handler[h].event = "order_refunded"
                             /\ Handle(h) /\ Answer(h)
    BY <1>2, NewAnswers
  <2>2. SelectOrder(h) \/ RecordRefund(h) \/ ApplyRefund(h)
    BY <2>1 DEF Handle, Ignore, InsertOrder, CommitOrder, At
  <2>3. CASE SelectOrder(h)
    <3>1. payments[o].status = "refunded" /\ payments' = payments
      BY <2>1, <2>3 DEF SelectOrder, Answer, Goto, At, PaymentsInv, TypeOK, Call, Idle
    <3> QED
      BY <3>1
  <2>4. CASE RecordRefund(h)
    BY <2>1, <2>4 DEF RecordRefund, At, AbsentInv, PaymentsInv, TypeOK
  <2>5. CASE ApplyRefund(h)
    BY <2>1, <2>5 DEF ApplyRefund, PaymentsInv, TypeOK, Payment
  <2> QED
    BY <2>2, <2>3, <2>4, <2>5
<1> QED
  BY <1>1, <1>2

\* "Mark a payment refunded and take its credits back" (payments.py:152): when
\* webhooks are handled one at a time, a 200 for order_refunded means that the
\* payment is refunded.  With two handlers it does not hold.
THEOREM RefundsAreRecordedOneByOne == OneHandler => (Spec => []RefundIsRecorded)
<1> SUFFICES ASSUME OneHandler
             PROVE  Spec => []RefundIsRecorded
  OBVIOUS
<1> DEFINE Inv == AbsentInv /\ RefundIsRecorded
<1>1. Init => Inv
  BY DEF Init, AbsentInv, RefundIsRecorded, Idle
<1>2. PaymentsInv /\ Inv /\ [Next]_vars => Inv'
  BY AbsentStep, RefundRecordedStep
<1> QED
  BY <1>1, <1>2, PaymentsAlways, PTL DEF Spec

---------------------------------------------------------------------------
(* What a webhook moves, and steps of others *)

\* What the buyer of o got for it.
Net(o) == ledger.granted[o] - ledger.taken[o]

OrderStands(o) == payments'[o].status = payments[o].status /\ Net(o)' = Net(o)

\* The pack of o is granted; taken back; or o is closed before it is granted.
Grants(o) == /\ payments[o].status = "none"
             /\ payments'[o].status \in {"paid", "unmatched"}
             /\ credits' = [credits EXCEPT ![Buyer[o]] = @ + Pack[o]]
TakesBack(o) ==
  /\ payments[o].status \in {"paid", "unmatched"}
  /\ payments'[o].status = "refunded"
  /\ credits' = [credits EXCEPT ![Buyer[o]] = @ - Min({@, Pack[o]})]
Closes(o) == /\ payments[o].status = "none"
             /\ payments'[o].status = "refunded"
             /\ credits' = credits

\* Every step of a webhook does one of the three to one order, or none.
LEMMA WebhookMoves ==
  ASSUME PaymentsInv, Webhooks
  PROVE  \/ UNCHANGED <<credits, payments, ledger>>
         \/ \E o \in Orders :
              /\ Grants(o) \/ TakesBack(o) \/ Closes(o)
              /\ credits' = [credits EXCEPT ![Buyer[o]] = @ + Net(o)' - Net(o)]
              /\ \A p \in Orders \ {o} : OrderStands(p)
<1>0. TypeOK /\ BusyInv /\ HeldInv /\ MovedInv
  BY DEF PaymentsInv
<1> DEFINE Moved(o) == /\ Grants(o) \/ TakesBack(o) \/ Closes(o)
                      /\ credits' = [credits EXCEPT ![Buyer[o]] = @ + Net(o)' - Net(o)]
                      /\ \A p \in Orders \ {o} : OrderStands(p)
<1>1. \A o \in Orders : /\ ledger.granted[o] \in Nat /\ ledger.taken[o] \in Nat
                       /\ Buyer[o] \in Users /\ credits[Buyer[o]] \in Nat
                       /\ Pack[o] \in Nat
  BY <1>0, BuyerAssumption, PackAssumption DEF TypeOK
<1>2. ASSUME NEW h \in Handlers, CommitOrder(h) PROVE \E o \in Orders : Moved(o)
  <2>0. PICK o \in Orders : o = handler[h].order
    BY <1>0, <1>2 DEF CommitOrder, At, BusyInv
  <2>1. payments[o].status = "none"
    BY <1>0, <1>2, <2>0 DEF CommitOrder, At, HeldInv, Recorded
  <2>2. /\ payments'[o].status \in {"paid", "unmatched"}
        /\ \A p \in Orders \ {o} : payments'[p] = payments[p]
    BY <1>0, <1>2, <2>0 DEF CommitOrder, TypeOK
  <2>3. /\ ledger'.granted[o] = ledger.granted[o] + Pack[o]
        /\ ledger'.taken = ledger.taken
        /\ \A p \in Orders \ {o} : ledger'.granted[p] = ledger.granted[p]
    BY <1>0, <1>2, <2>0 DEF CommitOrder, TypeOK
  <2>4. credits' = [credits EXCEPT ![Buyer[o]] = @ + Pack[o]]
    BY <1>2, <2>0 DEF CommitOrder
  <2>5. credits[Buyer[o]] + Net(o)' - Net(o) = credits[Buyer[o]] + Pack[o]
    BY <1>1, <2>1, <2>3 DEF Net
  <2>6. Grants(o)
    BY <2>1, <2>2, <2>4 DEF Grants
  <2>7. \A p \in Orders \ {o} : OrderStands(p)
    BY <2>2, <2>3 DEF OrderStands, Net
  <2> QED
    BY <2>4, <2>5, <2>6, <2>7
<1>3. ASSUME NEW h \in Handlers, ApplyRefund(h) PROVE \E o \in Orders : Moved(o)
  <2>0. PICK o \in Orders : o = handler[h].order
    BY <1>0, <1>3 DEF ApplyRefund, At, BusyInv
  <2>1. payments[o].status \in {"paid", "unmatched"}
    BY <1>0, <1>3, <2>0 DEF ApplyRefund, At, HeldInv
  <2>2. /\ payments'[o].status = "refunded"
        /\ \A p \in Orders \ {o} : payments'[p] = payments[p]
    BY <1>0, <1>3, <2>0 DEF ApplyRefund, TypeOK, Payment
  <2>3. PICK r \in Nat : r = Recoverable(o)
    BY <1>0, <2>1, RecoverableBounds
  <2>4. /\ ledger'.granted = ledger.granted
        /\ ledger'.taken[o] = ledger.taken[o] + r
        /\ \A p \in Orders \ {o} : ledger'.taken[p] = ledger.taken[p]
    BY <1>0, <1>3, <2>0, <2>3 DEF ApplyRefund, TypeOK
  <2>5. credits' = [credits EXCEPT ![Buyer[o]] = @ - r]
    BY <1>3, <2>0, <2>3 DEF ApplyRefund
  <2>6. credits[Buyer[o]] + Net(o)' - Net(o) = credits[Buyer[o]] - r
    BY <1>1, <2>1, <2>4 DEF Net
  <2>7. r = Min({credits[Buyer[o]], Pack[o]})
    <3>1. payments[o].credits = Pack[o]
      BY <1>0, <2>1 DEF MovedInv
    <3>2. CASE payments[o].status = "paid"
      <4>1. {payments[o].credits, credits[Buyer[o]]} = {credits[Buyer[o]], Pack[o]}
        BY <3>1
      <4>2. r = Min({payments[o].credits, credits[Buyer[o]]})
        BY <2>3, <3>2 DEF Recoverable
      <4> QED
        BY <4>1, <4>2
    <3>3. CASE payments[o].status = "unmatched"
      <4>1. Pack[o] = 0 /\ r = 0
        BY <1>0, <2>1, <2>3, <3>3 DEF MovedInv, Recoverable
      <4>2. Min({credits[Buyer[o]], Pack[o]}) = 0
        BY <1>1, <2>1, <4>1, MinOfTwo
      <4> QED
        BY <4>1, <4>2
    <3> QED
      BY <2>1, <3>2, <3>3
  <2>8. TakesBack(o)
    BY <2>1, <2>2, <2>5, <2>7 DEF TakesBack
  <2>9. \A p \in Orders \ {o} : OrderStands(p)
    BY <2>2, <2>4 DEF OrderStands, Net
  <2> QED
    BY <2>5, <2>6, <2>8, <2>9
<1>4. ASSUME NEW h \in Handlers, RecordRefund(h)
      PROVE  UNCHANGED <<credits, payments, ledger>> \/ \E o \in Orders : Moved(o)
  <2>1. PICK o \in Orders : o = handler[h].order
    BY <1>0, <1>4 DEF RecordRefund, At, BusyInv
  <2>2. CASE Recorded(o)
    BY <1>4, <2>1, <2>2 DEF RecordRefund
  <2>3. CASE ~Recorded(o)
    <3>1. /\ payments'[o].status = "refunded" /\ payments[o].status = "none"
          /\ \A p \in Orders \ {o} : payments'[p] = payments[p]
          /\ credits' = credits /\ ledger' = ledger
      BY <1>0, <1>4, <2>1, <2>3 DEF RecordRefund, Recorded, TypeOK
    <3>2. Closes(o) /\ \A p \in Orders : Net(p)' = Net(p)
      BY <3>1 DEF Closes, Net
    <3>3. credits[Buyer[o]] + Net(o)' - Net(o) = credits[Buyer[o]]
      BY <1>1, <2>1, <3>1 DEF Net
    <3>4. credits' = [credits EXCEPT ![Buyer[o]] = credits[Buyer[o]]]
      BY <1>0, <3>1 DEF TypeOK
    <3>5. \A p \in Orders \ {o} : OrderStands(p)
      BY <3>1, <3>2 DEF OrderStands
    <3> QED
      BY <3>2, <3>3, <3>4, <3>5
  <2> QED
    BY <2>2, <2>3
<1>6. CASE ~\E h \in Handlers : Writes(h)
  BY <1>6 DEF Writes, Webhooks, Handle, Send, Deliver, Redeliver, Ignore,
     InsertOrder, SelectOrder, Fail
<1> HIDE DEF Moved
<1>7. CASE \E h \in Handlers : Writes(h)
  <2>1. UNCHANGED <<credits, payments, ledger>> \/ \E o \in Orders : Moved(o)
    BY <1>2, <1>3, <1>4, <1>7 DEF Writes
  <2> QED
    BY <2>1 DEF Moved
<1> QED
  BY <1>6, <1>7

LEMMA PaymentsFrame ==
  ASSUME PaymentsInv, credits' \in [Users -> Nat],
         UNCHANGED <<payments, handler, sent, answered, failures, duplicates, ledger>>
  PROVE  PaymentsInv'
<1>1. TypeOK' /\ BusyInv'
  BY DEF PaymentsInv, TypeOK, BusyInv
<1>2. HeldInv' /\ AloneInv' /\ MovedInv'
  BY DEF PaymentsInv, HeldInv, AloneInv, MovedInv, Recorded
<1> QED
  BY <1>1, <1>2 DEF PaymentsInv

LEMMA RefundRecordedFrame ==
  ASSUME AbsentInv, RefundIsRecorded, UNCHANGED <<payments, handler, answered>>
  PROVE  AbsentInv' /\ RefundIsRecorded'
BY DEF AbsentInv, RefundIsRecorded, Recorded, Skips
===========================================================================
