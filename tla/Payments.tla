----------------------------- MODULE Payments -----------------------------
(***************************************************************************)
(* Credit packs bought through Lemon Squeezy.  The provider posts          *)
(* order_created and order_refunded webhooks: at least once each until a   *)
(* delivery is answered 200, possibly more often, in any order.  Several   *)
(* webhook handlers run at the same time (the API awaits the database),    *)
(* each in its own READ COMMITTED transaction.  A handler's statements on  *)
(* the payments table are separate steps; the last one includes the        *)
(* commit.  Uncommitted inserts and row locks are read off the handlers.   *)
(***************************************************************************)
EXTENDS Integers, FiniteSetsExt

CONSTANTS Users,          \* accounts
          Orders,         \* Lemon Squeezy order ids
          Handlers,       \* concurrent calls of the webhook route
          NoOrder,        \* the order of an idle handler
          Buyer,          \* Buyer[o]: the user in the custom data of o
          Pack,           \* Pack[o]: credits of its variant, 0 when unmatched
          TestOrders,     \* orders placed in test mode
          UnpaidOrders,   \* orders whose order_created is not "paid"
          AllowTestMode,  \* LEMONSQUEEZY_ALLOW_TEST_MODE
          InitialCredits, \* User.credits before the first order
          MaxFailures,    \* bound on handlers that fail and answer 500
          MaxDuplicates   \* bound on deliveries nobody waits for

ASSUME BuyerAssumption == Buyer \in [Orders -> Users]
ASSUME PackAssumption == Pack \in [Orders -> Nat]
ASSUME NoOrderAssumption == NoOrder \notin Orders
ASSUME OrdersAssumption == TestOrders \subseteq Orders /\ UnpaidOrders \subseteq Orders
ASSUME TestModeAssumption == AllowTestMode \in BOOLEAN
ASSUME CreditAssumption == InitialCredits \in [Users -> Nat]
ASSUME BoundAssumption == MaxFailures \in Nat /\ MaxDuplicates \in Nat

Events == {"order_created", "order_refunded"}

VARIABLES credits,   \* credits[u]: User.credits
          payments,  \* payments[o]: the committed payments row of o
          handler,   \* handler[h]: the webhook call h executes
          sent,      \* sent[o]: the events the provider has sent for o
          answered,  \* answered[o]: the events it has a 200 for
          failures, duplicates,   \* so far
          ledger     \* history: what o granted and what was taken back for it

vars == <<credits, payments, handler, sent, answered, failures, duplicates, ledger>>

Payment == [status : {"none", "paid", "unmatched", "refunded"}, credits : Nat]
Call == [pc : {"idle", "parsed", "inserted", "absent", "locked"},
         order : Orders \cup {NoOrder}, event : Events]

TypeOK == /\ credits \in [Users -> Nat]
          /\ payments \in [Orders -> Payment]
          /\ handler \in [Handlers -> Call]
          /\ sent \in [Orders -> SUBSET Events]
          /\ answered \in [Orders -> SUBSET Events]
          /\ failures \in 0..MaxFailures
          /\ duplicates \in 0..MaxDuplicates
          /\ ledger \in [granted : [Orders -> Nat], taken : [Orders -> Nat]]

NoPayment == [status |-> "none", credits |-> 0]
Idle == [pc |-> "idle", order |-> NoOrder, event |-> "order_created"]

Init == /\ credits = InitialCredits
        /\ payments = [o \in Orders |-> NoPayment]
        /\ handler = [h \in Handlers |-> Idle]
        /\ sent = [o \in Orders |-> {}]
        /\ answered = [o \in Orders |-> {}]
        /\ failures = 0
        /\ duplicates = 0
        /\ ledger = [granted |-> [o \in Orders |-> 0], taken |-> [o \in Orders |-> 0]]

\* Mutant: no unique constraint on the order id.
InsertingUnseen(o) == FALSE

\* An insert of o that its transaction has not committed: another insert of
\* the same order id waits for it on the unique constraint.
Inserting(o) == \E h \in Handlers : handler[h].pc = "inserted" /\ handler[h].order = o

\* The row of o is locked by a SELECT ... FOR UPDATE.
Locked(o) == \E h \in Handlers : handler[h].pc = "locked" /\ handler[h].order = o

\* Mutant: a refunded row does not count as a known order.
RecordedUnlessRefunded(o) == payments[o].status \in {"paid", "unmatched"}

Recorded(o) == payments[o].status # "none"

At(h, event, pc) == handler[h].pc = pc /\ handler[h].event = event
Goto(h, pc) == handler' = [handler EXCEPT ![h].pc = pc]

\* The handler answers 200: the provider will not retry the event.
Answer(h) == /\ handler' = [handler EXCEPT ![h] = Idle]
             /\ answered' = [answered EXCEPT ![handler[h].order] =
                                @ \cup {handler[h].event}]

---------------------------------------------------------------------------
(* The provider *)

\* An order is paid; a paid order may be refunded later.
Send(o) ==
  /\ \E e \in Events \ sent[o] :
       /\ e = "order_refunded" => /\ "order_created" \in sent[o]
                                  /\ o \notin UnpaidOrders
       /\ sent' = [sent EXCEPT ![o] = @ \cup {e}]
  /\ UNCHANGED <<credits, payments, handler, answered, failures, duplicates, ledger>>

Start(h, o, e) ==
  /\ handler[h].pc = "idle"
  /\ e \in sent[o]
  /\ handler' = [handler EXCEPT ![h] = [pc |-> "parsed", order |-> o, event |-> e]]

InFlight(o, e) ==
  \E h \in Handlers : /\ handler[h].pc # "idle"
                      /\ handler[h].order = o /\ handler[h].event = e

\* The provider delivers an event it has no 200 for.
Deliver(o, e) ==
  /\ e \notin answered[o]
  /\ ~InFlight(o, e)
  /\ \E h \in Handlers : Start(h, o, e)
  /\ UNCHANGED <<credits, payments, sent, answered, failures, duplicates, ledger>>

\* It delivers an event again, while the first is running or after the 200.
Redeliver(o, e) ==
  /\ e \in answered[o] \/ InFlight(o, e)
  /\ duplicates < MaxDuplicates
  /\ duplicates' = duplicates + 1
  /\ \E h \in Handlers : Start(h, o, e)
  /\ UNCHANGED <<credits, payments, sent, answered, failures, ledger>>

---------------------------------------------------------------------------
(* The webhook handlers *)

\* Test orders while they are not allowed, and orders that are not paid,
\* are answered without touching the database.
Skips(o, e) == \/ o \in TestOrders /\ ~AllowTestMode
               \/ o \in UnpaidOrders /\ e = "order_created"

Ignore(h) ==
  /\ handler[h].pc = "parsed"
  /\ Skips(handler[h].order, handler[h].event)
  /\ Answer(h)
  /\ UNCHANGED <<credits, payments, sent, failures, duplicates, ledger>>

\* Mutant: an order somebody is inserting is answered without waiting.
InsertOrderNoWait(h) ==
  LET o == handler[h].order
  IN /\ At(h, "order_created", "parsed")
     /\ ~Skips(o, "order_created")
     /\ IF Recorded(o) \/ Inserting(o) THEN Answer(h)
                       ELSE Goto(h, "inserted") /\ UNCHANGED answered
     /\ UNCHANGED <<credits, payments, sent, failures, duplicates, ledger>>

\* apply_order_created: INSERT ... ON CONFLICT DO NOTHING.  A known order id
\* inserts nothing: rollback, 200.
InsertOrder(h) ==
  LET o == handler[h].order
  IN /\ At(h, "order_created", "parsed")
     /\ ~Skips(o, "order_created")
     /\ ~Inserting(o)
     /\ IF Recorded(o) THEN Answer(h)
                       ELSE Goto(h, "inserted") /\ UNCHANGED answered
     /\ UNCHANGED <<credits, payments, sent, failures, duplicates, ledger>>

\* The grant and the commit; an order without user or pack is only recorded.
CommitOrder(h) ==
  LET o == handler[h].order
  IN /\ At(h, "order_created", "inserted")
     /\ payments' = [payments EXCEPT ![o] =
          [status |-> IF Pack[o] > 0 THEN "paid" ELSE "unmatched", credits |-> Pack[o]]]
     /\ credits' = [credits EXCEPT ![Buyer[o]] = @ + Pack[o]]
     /\ ledger' = [ledger EXCEPT !.granted[o] = @ + Pack[o]]
     /\ Answer(h)
     /\ UNCHANGED <<sent, failures, duplicates>>

\* Mutant: the branch for unmatched orders is missing.
SelectOrderMatched(h) ==
  LET o == handler[h].order
  IN /\ At(h, "order_refunded", "parsed")
     /\ ~Locked(o)
     /\ \/ payments[o].status = "none" /\ Goto(h, "absent") /\ UNCHANGED answered
        \/ payments[o].status = "refunded" /\ Answer(h)
        \/ payments[o].status = "paid" /\ Goto(h, "locked") /\ UNCHANGED answered
     /\ UNCHANGED <<credits, payments, sent, failures, duplicates, ledger>>

\* apply_order_refunded: SELECT ... FOR UPDATE.  It sees committed rows only.
SelectOrder(h) ==
  LET o == handler[h].order
  IN /\ At(h, "order_refunded", "parsed")
     /\ ~Skips(o, "order_refunded")
     /\ ~Locked(o)
     /\ \/ payments[o].status = "none" /\ Goto(h, "absent") /\ UNCHANGED answered
        \/ payments[o].status = "refunded" /\ Answer(h)
        \/ payments[o].status \in {"paid", "unmatched"} /\ Goto(h, "locked")
             /\ UNCHANGED answered
     /\ UNCHANGED <<credits, payments, sent, failures, duplicates, ledger>>

\* Mutant: a refund of an unknown order is answered and forgotten.
RecordRefundForgets(h) ==
  /\ At(h, "order_refunded", "absent")
  /\ Answer(h)
  /\ UNCHANGED <<credits, payments, sent, failures, duplicates, ledger>>

\* No row was seen: INSERT a refunded row ON CONFLICT DO NOTHING, and commit.
RecordRefund(h) ==
  LET o == handler[h].order
  IN /\ At(h, "order_refunded", "absent")
     /\ ~Inserting(o)
     /\ payments' = IF Recorded(o) THEN payments
                    ELSE [payments EXCEPT ![o] = [status |-> "refunded", credits |-> 0]]
     /\ Answer(h)
     /\ UNCHANGED <<credits, sent, failures, duplicates, ledger>>

\* Mutants: no clamp at zero; nothing taken when not everything is there.
RecoverableUnclamped(o) == IF payments[o].status = "paid" THEN payments[o].credits ELSE 0
RecoverableAllOrNothing(o) ==
  IF payments[o].status = "paid" /\ credits[Buyer[o]] >= payments[o].credits
  THEN payments[o].credits ELSE 0

\* The credits still there that a refund of o takes back.
Recoverable(o) ==
  IF payments[o].status = "paid" THEN Min({payments[o].credits, credits[Buyer[o]]}) ELSE 0

\* Mutant: the second UPDATE, the clamp, lost its condition credits < 0.
ApplyRefundZeroes(h) ==
  LET o == handler[h].order
  IN /\ At(h, "order_refunded", "locked")
     /\ credits' = [credits EXCEPT ![Buyer[o]] = 0]
     /\ ledger' = [ledger EXCEPT !.taken[o] = @ + Recoverable(o)]
     /\ payments' = [payments EXCEPT ![o].status = "refunded"]
     /\ Answer(h)
     /\ UNCHANGED <<sent, failures, duplicates>>

\* The subtraction, the clamp at zero, status = refunded, and the commit.
ApplyRefund(h) ==
  LET o == handler[h].order
  IN /\ At(h, "order_refunded", "locked")
     /\ credits' = [credits EXCEPT ![Buyer[o]] = @ - Recoverable(o)]
     /\ ledger' = [ledger EXCEPT !.taken[o] = @ + Recoverable(o)]
     /\ payments' = [payments EXCEPT ![o].status = "refunded"]
     /\ Answer(h)
     /\ UNCHANGED <<sent, failures, duplicates>>

\* A statement raises or the process dies: rollback, and no 200.
Fail(h) ==
  /\ handler[h].pc # "idle"
  /\ failures < MaxFailures
  /\ failures' = failures + 1
  /\ handler' = [handler EXCEPT ![h] = Idle]
  /\ UNCHANGED <<credits, payments, sent, answered, duplicates, ledger>>

\* Meanwhile users spend credits on uploads: spend_credit.
Spend(u) ==
  /\ credits[u] > 0
  /\ credits' = [credits EXCEPT ![u] = @ - 1]
  /\ UNCHANGED <<payments, handler, sent, answered, failures, duplicates, ledger>>

Handle(h) == \/ Ignore(h) \/ InsertOrder(h) \/ CommitOrder(h)
             \/ SelectOrder(h) \/ RecordRefund(h) \/ ApplyRefund(h)

Webhooks ==
  \/ \E o \in Orders : Send(o) \/ \E e \in Events : Deliver(o, e) \/ Redeliver(o, e)
  \/ \E h \in Handlers : Handle(h) \/ Fail(h)

Next == Webhooks \/ \E u \in Users : Spend(u)

Spec == Init /\ [][Next]_vars

\* The provider retries what it has no 200 for, whenever a handler is free
\* again and again, and a live handler goes on.
Fairness == /\ \A o \in Orders, e \in Events : SF_vars(Deliver(o, e))
            /\ \A h \in Handlers : WF_vars(Handle(h))

FairSpec == Spec /\ Fairness

---------------------------------------------------------------------------
(* Properties *)

\* An order grants its pack at most once and a refund takes back at most what
\* the order granted, whatever is delivered twice, late or at the same time.
GrantedOnce ==
  \A o \in Orders : /\ ledger.granted[o] <= Pack[o]
                    /\ ledger.taken[o] <= ledger.granted[o]

\* A refund takes the whole pack back, or all that is left of the balance.
RefundTakesAll ==
  [][\A o \in Orders :
       payments[o].status = "paid" /\ payments'[o].status = "refunded" =>
         ledger'.taken[o] = Pack[o] \/ credits'[Buyer[o]] = 0]_vars

\* A refunded order stays refunded and grants nothing any more; in particular
\* an order_created that arrives after the refund credits nothing.
RefundedIsFinal ==
  [][\A o \in Orders : payments[o].status = "refunded" =>
       /\ payments'[o] = payments[o]
       /\ ledger'.granted[o] = ledger.granted[o]]_vars

\* A 200 for order_created means the order is on record: the provider stops
\* retrying, so a rolled back insert must never be answered with one.
CreatedIsRecorded ==
  \A o \in Orders :
    "order_created" \in answered[o] /\ ~Skips(o, "order_created") => Recorded(o)

\* "Mark a payment refunded and take its credits back" (payments.py:152): a
\* 200 for order_refunded means the payment is refunded.
RefundIsRecorded ==
  \A o \in Orders :
    "order_refunded" \in answered[o] /\ ~Skips(o, "order_refunded") =>
      payments[o].status = "refunded"

\* Whatever is sent for an order is answered in the end, through failures and
\* duplicates: handlers that wait for a row or for the unique constraint never
\* block each other for good.
EventsAnswered ==
  \A o \in Orders : sent[o] # answered[o] ~> sent[o] = answered[o]
===========================================================================
