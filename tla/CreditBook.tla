---------------------------- MODULE CreditBook ----------------------------
(***************************************************************************)
(* What uploads and payments together promise about a balance: the tickets *)
(* of CreditLedger, and orders that add their pack once and give back what *)
(* is left of it once.  No webhook, handler, row or worker.                *)
(***************************************************************************)
EXTENDS CreditLedger, FiniteSetsExt

CONSTANTS Orders, Buyer, Pack   \* Pack[o] credits for the account Buyer[o]

VARIABLE order   \* order[o]: where the pack of o is

bookVars == <<balance, ticket, order>>

BookInit == Init /\ order = [o \in Orders |-> "open"]

\* order_created: the pack is credited.
Grant(o) == /\ order[o] = "open"
            /\ order' = [order EXCEPT ![o] = "granted"]
            /\ balance' = [balance EXCEPT ![Buyer[o]] = @ + Pack[o]]
            /\ UNCHANGED ticket

\* order_refunded: the pack, or what is left of the balance, is taken back.
TakeBack(o) ==
  /\ order[o] = "granted"
  /\ order' = [order EXCEPT ![o] = "closed"]
  /\ balance' = [balance EXCEPT ![Buyer[o]] = @ - Min({@, Pack[o]})]
  /\ UNCHANGED ticket

\* The refund is the first that is heard of the order.
Close(o) == /\ order[o] = "open"
            /\ order' = [order EXCEPT ![o] = "closed"]
            /\ UNCHANGED <<balance, ticket>>

BookNext == \/ Next /\ UNCHANGED order
            \/ \E o \in Orders : Grant(o) \/ TakeBack(o) \/ Close(o)

BookSpec == BookInit /\ [][BookNext]_bookVars
===========================================================================
