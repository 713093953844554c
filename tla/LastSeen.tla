----------------------------- MODULE LastSeen -----------------------------
(***************************************************************************)
(* Everything that writes User.credits, together: the uploads and workers  *)
(* of Analyses, the webhooks of Payments and the admin form.  The balance  *)
(* is the one variable they share.  Users spend credits on uploads only,   *)
(* so the steps of Analyses take the place of Payments' Spend.             *)
(***************************************************************************)
EXTENDS Integers, FiniteSetsExt

CONSTANTS Users, InitialCredits,
          Analyses, Owner, Workers, NoJob, Faults, MaxLosses,
          Orders, Buyer, Pack, Handlers, NoOrder, TestOrders, UnpaidOrders,
          AllowTestMode, MaxFailures, MaxDuplicates,
          MaxForms   \* bound on the saves of the admin form

VARIABLES credits,
          rows, uploads, queue, worker, losses, tickets,              \* Analyses
          payments, calls, sent, answered, failures, duplicates, orders, \* Payments
          form,   \* the open edit form of a user: the credits it shows, or {}
          forms,  \* saves so far
          corrected   \* history: what saves changed in the balance of u

analysesVars == <<rows, uploads, queue, worker, losses, tickets>>
paymentsVars == <<payments, calls, sent, answered, failures, duplicates, orders>>
formVars == <<form, forms, corrected>>
vars == <<credits, analysesVars, paymentsVars, formVars>>

A == INSTANCE Analyses WITH handler <- uploads, ledger <- tickets
P == INSTANCE Payments WITH handler <- calls, ledger <- orders

ASSUME UploadAssumption == /\ Owner \in [Analyses -> Users] /\ NoJob \notin Analyses
                           /\ MaxLosses \in Nat /\ Faults \subseteq A!AllFaults
ASSUME OrderAssumption == /\ Buyer \in [Orders -> Users] /\ Pack \in [Orders -> Nat]
                          /\ NoOrder \notin Orders
                          /\ TestOrders \subseteq Orders /\ UnpaidOrders \subseteq Orders
                          /\ AllowTestMode \in BOOLEAN
                          /\ MaxFailures \in Nat /\ MaxDuplicates \in Nat
ASSUME CreditAssumption == InitialCredits \in [Users -> Nat]
ASSUME FormAssumption == MaxForms \in Nat
\* A table has finitely many rows.
ASSUME FiniteAssumption == IsFiniteSet(Analyses) /\ IsFiniteSet(Orders)

TypeOK == /\ A!TypeOK
          /\ P!TypeOK
          /\ form \in SUBSET (Users \X Nat) /\ Cardinality(form) <= 1
          /\ forms \in 0..MaxForms
          /\ corrected \in [Users -> Int]

Init == /\ A!Init /\ P!Init
        /\ form = {} /\ forms = 0 /\ corrected = [u \in Users |-> 0]

Upload == A!Next /\ UNCHANGED <<paymentsVars, formVars>>

Webhook == P!Webhooks /\ UNCHANGED <<analysesVars, formVars>>

---------------------------------------------------------------------------
(* The edit form of a user contains the credits column (only the password   *)
(* and the analyses are excluded): it is filled when it is opened and       *)
(* written as a whole when it is saved.                                     *)

OpenForm ==
  /\ form = {}
  /\ forms < MaxForms
  /\ \E u \in Users : form' = {<<u, credits[u]>>}
  /\ UNCHANGED <<credits, analysesVars, paymentsVars, forms, corrected>>

\* The admin changed another column.
SaveForm ==
  /\ \E f \in form :
       /\ credits' = [credits EXCEPT ![f[1]] = f[2]]
       /\ corrected' = [corrected EXCEPT ![f[1]] = @ + f[2] - credits[f[1]]]
  /\ form' = {}
  /\ forms' = forms + 1
  /\ UNCHANGED <<analysesVars, paymentsVars>>

Next == Upload \/ Webhook \/ OpenForm \/ SaveForm

Spec == Init /\ [][Next]_vars

---------------------------------------------------------------------------
(* Properties *)

Bought(u) == {o \in Orders : Buyer[o] = u}
Uploaded(u) == {a \in Analyses : Owner[a] = u}

Total(f, S) == MapThenSumSet(LAMBDA x : f[x], S)

\* What u was given and got back, less what was taken for uploads and refunds.
Owed(u) ==
  InitialCredits[u]
    + Total([o \in Orders |-> orders.granted[o] - orders.taken[o]], Bought(u))
    - Total([a \in Analyses |-> tickets[a].charged - tickets[a].refunded], Uploaded(u))

\* No credit appears or gets lost between the services: whatever runs at the
\* same time, the balance is what the orders and the uploads of the user add
\* up to (every write is an increment or happens under the row's lock), and a
\* late form moves it by nothing but the difference the admin overwrote.
BalanceIsOwed == \A u \in Users : credits[u] = Owed(u) + corrected[u]

\* Uploads, workers and webhooks together implement one credit book, apart from
\* the saves of the form: each ticket is charged and returned once, each pack
\* granted and taken back once, always with the balance.
Book == INSTANCE CreditBook WITH
          Tickets <- Analyses, balance <- credits,
          ticket <- [a \in Analyses |-> A!Ticket(a)],
          order <- [o \in Orders |-> CASE payments[o].status = "none" -> "open"
                                       [] payments[o].status = "refunded" -> "closed"
                                       [] OTHER -> "granted"]
ImplementsBook == Book!BookInit /\ [][Book!BookNext \/ SaveForm]_(Book!bookVars)

\* "no free full report" (README.md:38), with orders, refunds and forms that
\* move the balance under a running analysis, as long as its message is
\* delivered once and no soft limit fires.
NoFreeFullReport == A!NoFreeFullReport

\* A finished analysis stays what it is: its status never goes back or turns
\* from completed to failed, and the credit of a full report stays spent.
DeliveredStands == A!StatusForward /\ A!DeliveredStaysPaid

\* With one webhook handled at a time, in any order, repeated or retried, a
\* 200 for order_refunded means that the payment is refunded.
RefundIsRecorded == P!RefundIsRecorded
===========================================================================
