-------------------------- MODULE LastSeenProofs ---------------------------
(***************************************************************************)
(* Theorems about LastSeen, for every number of users, uploads, workers,   *)
(* orders and webhook handlers: the step lemmas of the two services are    *)
(* instantiated, and hold although the other service and the admin form    *)
(* change the balances between their steps.                                *)
(***************************************************************************)
EXTENDS LastSeen, FiniteSums, TLAPS

AP == INSTANCE AnalysesProofs WITH handler <- uploads, ledger <- tickets
PP == INSTANCE PaymentsProofs WITH handler <- calls, ledger <- orders

---------------------------------------------------------------------------
(* The instances *)

LEMMA UploadsAssumed ==
  /\ AP!OwnerAssumption /\ AP!NoJobAssumption /\ AP!CreditAssumption
  /\ AP!BoundAssumption /\ AP!FaultAssumption
BY UploadAssumption, CreditAssumption
   DEF AP!OwnerAssumption, AP!NoJobAssumption, AP!CreditAssumption,
       AP!BoundAssumption, AP!FaultAssumption, A!AllFaults, AP!AllFaults

LEMMA OrdersAssumed ==
  /\ PP!BuyerAssumption /\ PP!PackAssumption /\ PP!NoOrderAssumption
  /\ PP!OrdersAssumption /\ PP!TestModeAssumption /\ PP!CreditAssumption
  /\ PP!BoundAssumption
BY OrderAssumption, CreditAssumption
   DEF PP!BuyerAssumption, PP!PackAssumption, PP!NoOrderAssumption,
       PP!OrdersAssumption, PP!TestModeAssumption, PP!CreditAssumption,
       PP!BoundAssumption

\* The definitions of a component and of its proof module are the same.
LEMMA SameUploads == A!Next = AP!Next
BY DEF A!Next, AP!Next, A!Answer, AP!Answer, A!Work, AP!Work, A!Interrupt,
   AP!Interrupt, A!Reject, AP!Reject, A!LoadUser, AP!LoadUser, A!Charged,
   AP!Charged, A!Unlocked, AP!Unlocked, A!ChargeAndInsert, AP!ChargeAndInsert,
   A!Exists, AP!Exists, A!RefreshFails, AP!RefreshFails, A!Enqueue, AP!Enqueue,
   A!EnqueueOk, AP!EnqueueOk, A!EnqueueTwice, AP!EnqueueTwice, A!EnqueueError,
   AP!EnqueueError, A!EnqueueAmbiguous, AP!EnqueueAmbiguous, A!CompensateSelect,
   AP!CompensateSelect, A!RowFree, AP!RowFree, A!Holds, AP!Holds, A!Refund,
   AP!Refund, A!Failed, AP!Failed, A!Partial, AP!Partial, A!CompensateCommit,
   AP!CompensateCommit, A!CompensateMissing, AP!CompensateMissing,
   A!HandlerDies, AP!HandlerDies, A!Delete, AP!Delete, A!NoRow, AP!NoRow,
   A!Idle, AP!Idle, A!Receive, AP!Receive, A!MarkProcessing, AP!MarkProcessing,
   A!Analyze, AP!Analyze, A!PipelineRaises, AP!PipelineRaises, A!SaveWhole,
   AP!SaveWhole, A!RefundSelect, AP!RefundSelect, A!SavePartial, AP!SavePartial,
   A!AfterFailed, AP!AfterFailed, A!FailCommit, AP!FailCommit, A!FailMissing,
   AP!FailMissing, A!Ack, AP!Ack, A!SoftLimit, AP!SoftLimit, A!HardLimit,
   AP!HardLimit, A!DbError, AP!DbError, A!WorkerLost, AP!WorkerLost

LEMMA SameUploadTypes == A!TypeOK = AP!TypeOK
BY DEF A!TypeOK, AP!TypeOK, A!Row, AP!Row, A!Handler, AP!Handler, A!Worker,
   AP!Worker, A!Ledger, AP!Ledger, A!Status, AP!Status, A!Result, AP!Result

LEMMA SameUploadInit == A!Init = AP!Init
BY DEF A!Init, AP!Init, A!NoRow, AP!NoRow, A!Idle, AP!Idle

LEMMA SameWebhooks == P!Webhooks = PP!Webhooks
BY DEF P!Webhooks, PP!Webhooks, P!Send, PP!Send, P!Events, PP!Events, P!Deliver,
   PP!Deliver, P!InFlight, PP!InFlight, P!Start, PP!Start, P!Redeliver,
   PP!Redeliver, P!Handle, PP!Handle, P!Fail, PP!Fail, P!Ignore, PP!Ignore,
   P!InsertOrder, PP!InsertOrder, P!CommitOrder, PP!CommitOrder, P!SelectOrder,
   PP!SelectOrder, P!RecordRefund, PP!RecordRefund, P!ApplyRefund,
   PP!ApplyRefund, P!Skips, PP!Skips, P!Answer, PP!Answer, P!Idle, PP!Idle,
   P!Goto, PP!Goto, P!At, PP!At, P!Recorded, PP!Recorded, P!Inserting,
   PP!Inserting, P!Locked, PP!Locked, P!Recoverable, PP!Recoverable, P!Min,
   PP!Min

LEMMA SameWebhookTypes == P!TypeOK = PP!TypeOK
BY DEF P!TypeOK, PP!TypeOK, P!Payment, PP!Payment, P!Call, PP!Call, P!Events,
   PP!Events

LEMMA SameWebhookInit == P!Init = PP!Init
BY DEF P!Init, PP!Init, P!NoPayment, PP!NoPayment, P!Idle, PP!Idle

---------------------------------------------------------------------------
(* The invariants of the services hold in their composition. *)

\* A form is opened below the bound on saves and saved once.
FormInv == /\ form \in SUBSET (Users \X Nat) /\ Cardinality(form) <= 1
           /\ forms \in 0..MaxForms
           /\ form # {} => forms < MaxForms
           /\ corrected \in [Users -> Int]

Inv == AP!CreditInv /\ PP!PaymentsInv /\ FormInv

LEMMA InvInit == Init => Inv
<1> SUFFICES ASSUME Init PROVE Inv
  OBVIOUS
<1>1. AP!CreditInv
  BY UploadsAssumed, SameUploadInit, AP!CreditInit DEF Init
<1>2. PP!PaymentsInv
  BY OrdersAssumed, SameWebhookInit, PP!PaymentsInit DEF Init
<1>3. FormInv
  BY FS_EmptySet, FormAssumption DEF Init, FormInv
<1>4. QED
  BY <1>1, <1>2, <1>3 DEF Inv

LEMMA Typed == Inv => credits \in [Users -> Nat]
BY DEF Inv, AP!CreditInv, AP!TypeOK

LEMMA UploadStep ==
  ASSUME Inv, Upload
  PROVE  Inv' /\ [AP!Next]_(AP!vars)
<1>1. [AP!Next]_(AP!vars)
  BY SameUploads DEF Upload
<1>2. AP!CreditInv'
  BY <1>1, UploadsAssumed, AP!CreditStep DEF Inv
<1>3. credits' \in [Users -> Nat]
  BY <1>2 DEF AP!CreditInv, AP!TypeOK
<1>4. PP!PaymentsInv'
  BY <1>3, OrdersAssumed, PP!PaymentsFrame DEF Inv, Upload, paymentsVars
<1>5. FormInv'
  BY DEF Inv, FormInv, Upload, formVars
<1>6. QED
  BY <1>1, <1>2, <1>4, <1>5 DEF Inv

LEMMA WebhookStep ==
  ASSUME Inv, Webhook
  PROVE  Inv' /\ PP!Webhooks /\ [PP!Next]_(PP!vars)
<1>1. PP!Webhooks /\ [PP!Next]_(PP!vars)
  BY SameWebhooks DEF Webhook, PP!Next
<1>2. PP!PaymentsInv'
  BY <1>1, OrdersAssumed, PP!PaymentsStep DEF Inv
<1>3. credits' \in [Users -> Nat]
  BY <1>2 DEF PP!PaymentsInv, PP!TypeOK
<1>4. AP!CreditInv'
  BY <1>3, UploadsAssumed, AP!CreditFrame DEF Inv, Webhook, analysesVars
<1>5. FormInv'
  BY DEF Inv, FormInv, Webhook, formVars
<1>6. QED
  BY <1>1, <1>2, <1>4, <1>5 DEF Inv

\* The steps of the admin form.
LEMMA FormStep ==
  ASSUME Inv, OpenForm \/ SaveForm \/ UNCHANGED vars
  PROVE  Inv' /\ UNCHANGED <<analysesVars, paymentsVars>>
<1>0. UNCHANGED <<analysesVars, paymentsVars>>
  BY DEF OpenForm, SaveForm, vars
<1>1. credits' \in [Users -> Nat]
  <2>1. CASE SaveForm
    <3>1. PICK f \in form : credits' = [credits EXCEPT ![f[1]] = f[2]]
      BY <2>1 DEF SaveForm
    <3>2. f[1] \in Users /\ f[2] \in Nat
      BY DEF Inv, FormInv
    <3>3. QED
      BY <3>1, <3>2, Typed
  <2>2. CASE OpenForm \/ UNCHANGED vars
    BY <2>2, Typed DEF OpenForm, vars
  <2>3. QED
    BY <2>1, <2>2
<1>2. AP!CreditInv'
  BY <1>0, <1>1, UploadsAssumed, AP!CreditFrame DEF Inv, analysesVars
<1>3. PP!PaymentsInv'
  BY <1>0, <1>1, OrdersAssumed, PP!PaymentsFrame DEF Inv, paymentsVars
<1>4. FormInv'
  <2>1. CASE OpenForm
    <3>1. PICK u \in Users : form' = {<<u, credits[u]>>}
      BY <2>1 DEF OpenForm
    <3>2. <<u, credits[u]>> \in Users \X Nat
      BY Typed
    <3>3. Cardinality(form') = 1
      BY <3>1, FS_Singleton
    <3>4. QED
      BY <2>1, <3>1, <3>2, <3>3 DEF OpenForm, Inv, FormInv
  <2>2. CASE SaveForm
    <3>1. form' = {} /\ Cardinality(form') = 0
      BY <2>2, FS_EmptySet DEF SaveForm
    <3>2. forms' \in 0..MaxForms
      BY <2>2, FormAssumption DEF SaveForm, Inv, FormInv
    <3>3. PICK f \in form :
             corrected' = [corrected EXCEPT ![f[1]] = @ + f[2] - credits[f[1]]]
      BY <2>2 DEF SaveForm
    <3>4. f[1] \in Users /\ f[2] \in Nat
      BY DEF Inv, FormInv
    <3>5. corrected' \in [Users -> Int]
      BY <3>3, <3>4, Typed DEF Inv, FormInv
    <3>6. QED
      BY <3>1, <3>2, <3>5 DEF FormInv
  <2>3. CASE UNCHANGED vars
    BY <2>3 DEF vars, formVars, Inv, FormInv
  <2>4. QED
    BY <2>1, <2>2, <2>3
<1>5. QED
  BY <1>0, <1>2, <1>3, <1>4 DEF Inv

LEMMA InvStep == Inv /\ [Next]_vars => Inv'
BY UploadStep, WebhookStep, FormStep DEF Next

LEMMA InvAlways == Spec => []Inv
BY InvInit, InvStep, PTL DEF Spec

\* Every reachable state of the composition is well typed; in particular no
\* interleaving of uploads, webhooks and late forms makes a balance negative.
THEOREM LastSeenTyped == Spec => []TypeOK
<1>1. Inv => TypeOK
  BY SameUploadTypes, SameWebhookTypes
     DEF Inv, FormInv, AP!CreditInv, PP!PaymentsInv, TypeOK
<1>2. QED
  BY <1>1, InvAlways, PTL

---------------------------------------------------------------------------
(* What holds of one service holds in the composition. *)

LEMMA OnceInvStep ==
  ASSUME AP!DeliversOnce, Inv, AP!OnceInv, AP!PaidInv, [Next]_vars
  PROVE  AP!OnceInv' /\ AP!PaidInv' /\ AP!Stands
<1>1. CASE Upload
  <2>1. [AP!Next]_(AP!vars) /\ AP!CreditInv
    BY <1>1, UploadStep DEF Inv
  <2>2. QED
    BY <2>1, UploadsAssumed, AP!OnceStep, AP!PaidStep, AP!DeliveredStep
<1>2. CASE Webhook \/ OpenForm \/ SaveForm \/ UNCHANGED vars
  <2>1. UNCHANGED <<rows, uploads, queue, worker, losses, tickets>>
    BY <1>2, FormStep DEF Webhook, analysesVars
  <2>2. AP!TypeOK
    BY DEF Inv, AP!CreditInv
  <2>3. QED
    BY <2>1, <2>2, UploadsAssumed, AP!OnceFrame, AP!StandsStill
<1>3. QED
  BY <1>1, <1>2 DEF Next

LEMMA OnceInvInit == Init => AP!OnceInv /\ AP!PaidInv
BY UploadsAssumed, SameUploadInit, AP!OnceInit DEF Init

\* "There is no free full report" (README.md:38), while messages are delivered
\* once: neither orders nor refunds nor a late form get around the charge.
THEOREM NoReportIsFree == AP!DeliversOnce => (Spec => []NoFreeFullReport)
<1> SUFFICES ASSUME AP!DeliversOnce PROVE Spec => []NoFreeFullReport
  OBVIOUS
<1>1. AP!PaidInv => NoFreeFullReport
  BY DEF AP!PaidInv, AP!ShownInFull, NoFreeFullReport, A!NoFreeFullReport, A!ShownInFull
<1>2. Inv /\ AP!OnceInv /\ AP!PaidInv /\ [Next]_vars => AP!OnceInv' /\ AP!PaidInv'
  BY OnceInvStep
<1>3. QED
  BY <1>1, <1>2, OnceInvInit, InvInit, InvStep, PTL DEF Spec

\* A finished analysis stays what it is and a delivered report stays paid.
THEOREM DeliveredReportsStand == AP!DeliversOnce => (Spec => DeliveredStands)
<1> SUFFICES ASSUME AP!DeliversOnce PROVE Spec => DeliveredStands
  OBVIOUS
<1> DEFINE Forward ==
      \A a \in Analyses :
        A!Exists(a)' => /\ A!Rank[rows[a].status] <= A!Rank[rows'[a].status]
                        /\ rows[a].status \in {"completed", "failed"} =>
                             rows'[a].status = rows[a].status
<1> DEFINE StaysPaid ==
      \A a \in Analyses : A!ShownInFull(a) => tickets'[a].refunded = tickets[a].refunded
<1>1. AP!Stands => Forward /\ StaysPaid
  BY DEF AP!Stands, AP!Forward, AP!StaysPaid, AP!Exists, A!Exists, AP!Rank, A!Rank,
         AP!Status, A!Status, AP!ShownInFull, A!ShownInFull
<1>2. Inv /\ AP!OnceInv /\ AP!PaidInv /\ [Next]_vars => Forward /\ StaysPaid
  BY <1>1, OnceInvStep
<1>3. Inv /\ AP!OnceInv /\ AP!PaidInv /\ [Next]_vars => AP!OnceInv' /\ AP!PaidInv'
  BY OnceInvStep
<1> HIDE DEF Forward, StaysPaid
<1>4. Spec => [][Forward]_(A!vars) /\ [][StaysPaid]_(A!vars)
  BY <1>2, <1>3, OnceInvInit, InvInit, InvStep, PTL DEF Spec
<1>5. QED
  BY <1>4 DEF Forward, StaysPaid, DeliveredStands, A!StatusForward, A!DeliveredStaysPaid

\* A 200 for order_refunded means a refunded payment, one webhook at a time.
THEOREM RefundsAreRecorded == PP!OneHandler => (Spec => []RefundIsRecorded)
<1> SUFFICES ASSUME PP!OneHandler PROVE Spec => []RefundIsRecorded
  OBVIOUS
<1> DEFINE Recorded == PP!AbsentInv /\ PP!RefundIsRecorded
<1>1. Init => Recorded
  <2>1. Init => PP!Init
    BY SameWebhookInit DEF Init
  <2>2. PP!Init => PP!AbsentInv /\ PP!RefundIsRecorded
    BY DEF PP!Init, PP!AbsentInv, PP!RefundIsRecorded, PP!Idle
  <2>3. QED
    BY <2>1, <2>2
<1>2. Inv /\ Recorded /\ [Next]_vars => Recorded'
  <2> SUFFICES ASSUME Inv, Recorded, [Next]_vars PROVE Recorded'
    OBVIOUS
  <2>1. CASE Webhook
    <3>1. [PP!Next]_(PP!vars) /\ PP!PaymentsInv
      BY <2>1, WebhookStep DEF Inv
    <3>2. QED
      BY <3>1, OrdersAssumed, PP!AbsentStep, PP!RefundRecordedStep
  <2>2. CASE Upload \/ OpenForm \/ SaveForm \/ UNCHANGED vars
    <3>1. UNCHANGED <<payments, calls, answered>>
      BY <2>2, FormStep DEF Upload, paymentsVars
    <3>2. QED
      BY <3>1, OrdersAssumed, PP!RefundRecordedFrame
  <2>3. QED
    BY <2>1, <2>2 DEF Next
<1>3. Recorded => RefundIsRecorded
  BY DEF PP!RefundIsRecorded, RefundIsRecorded, P!RefundIsRecorded, PP!Skips, P!Skips
<1>4. QED
  BY <1>1, <1>2, <1>3, InvInit, InvStep, PTL DEF Spec

---------------------------------------------------------------------------
(* The balance *)

Packs == [o \in Orders |-> orders.granted[o] - orders.taken[o]]
Costs == [a \in Analyses |-> tickets[a].charged - tickets[a].refunded]

LEMMA OwedIsSum ==
  ASSUME NEW u \in Users
  PROVE  /\ Owed(u) = InitialCredits[u] + SumOver(Packs, Bought(u))
                                        - SumOver(Costs, Uploaded(u))
         /\ Owed(u)' = InitialCredits[u] + SumOver(Packs', Bought(u))
                                         - SumOver(Costs', Uploaded(u))
<1>1. \A f, S : Total(f, S) = SumOver(f, S)
  BY Zenon DEF Total, SumOver
<1>2. QED
  BY <1>1 DEF Owed, Packs, Costs, Bought, Uploaded

LEMMA BalanceTypes ==
  ASSUME Inv
  PROVE  /\ \A o \in Orders : Packs[o] \in Int
         /\ \A a \in Analyses : Costs[a] \in Int
         /\ \A u \in Users : credits[u] \in Nat /\ corrected[u] \in Int
<1>1. \A o \in Orders : Packs[o] \in Int
  BY DEF Inv, PP!PaymentsInv, PP!TypeOK, Packs
<1>2. \A a \in Analyses : Costs[a] \in Int
  BY DEF Inv, AP!CreditInv, AP!TypeOK, AP!Ledger, Costs
<1>3. QED
  BY <1>1, <1>2, Typed DEF Inv, FormInv

LEMMA TablesFinite ==
  ASSUME NEW u \in Users
  PROVE  IsFiniteSet(Bought(u)) /\ IsFiniteSet(Uploaded(u))
BY FiniteAssumption, FS_Subset DEF Bought, Uploaded

LEMMA SumsTyped ==
  ASSUME Inv, NEW u \in Users
  PROVE  /\ \A p \in Orders : Packs[p] \in Int
         /\ \A a \in Analyses : Costs[a] \in Int
         /\ SumOver(Packs, Bought(u)) \in Int /\ SumOver(Costs, Uploaded(u)) \in Int
         /\ credits[u] \in Int /\ corrected[u] \in Int /\ InitialCredits[u] \in Int
         /\ IsFiniteSet(Bought(u)) /\ IsFiniteSet(Uploaded(u))
<1>1. IsFiniteSet(Bought(u)) /\ IsFiniteSet(Uploaded(u))
  BY TablesFinite
<1>2. /\ \A p \in Orders : Packs[p] \in Int
      /\ \A a \in Analyses : Costs[a] \in Int
      /\ credits[u] \in Int /\ corrected[u] \in Int
  BY BalanceTypes
<1>3. \A p \in Bought(u) : Packs[p] \in Int
  BY <1>2 DEF Bought
<1>4. \A a \in Uploaded(u) : Costs[a] \in Int
  BY <1>2 DEF Uploaded
<1>5. SumOver(Packs, Bought(u)) \in Int
  BY <1>1, <1>3, SumType
<1>6. SumOver(Costs, Uploaded(u)) \in Int
  BY <1>1, <1>4, SumType
<1>7. InitialCredits[u] \in Int
  BY CreditAssumption
<1>8. QED
  BY <1>1, <1>2, <1>5, <1>6, <1>7

LEMMA BalanceInit == Init => BalanceIsOwed
<1> SUFFICES ASSUME Init, NEW u \in Users PROVE credits[u] = Owed(u) + corrected[u]
  BY DEF BalanceIsOwed
<1>1. credits[u] = InitialCredits[u] /\ InitialCredits[u] \in Nat /\ corrected[u] = 0
  BY CreditAssumption DEF Init, A!Init
<1>2. \A o \in Bought(u) : Packs[o] = 0
  BY DEF Init, P!Init, Packs, Bought
<1>3. \A a \in Uploaded(u) : Costs[a] = 0
  BY DEF Init, A!Init, Costs, Uploaded
<1>4. SumOver(Packs, Bought(u)) = 0 /\ SumOver(Costs, Uploaded(u)) = 0
  BY <1>2, <1>3, TablesFinite, SumZero
<1>5. QED
  BY <1>1, <1>4, OwedIsSum

\* A step that moves what one order or one upload owes moves the balance of its
\* user by as much, and that of nobody else.
LEMMA OrderMoves ==
  ASSUME Inv, BalanceIsOwed, NEW o \in Orders,
         credits' = [credits EXCEPT ![Buyer[o]] = @ + Packs'[o] - Packs[o]],
         \A p \in Orders : Packs'[p] \in Int,
         \A p \in Orders \ {o} : Packs'[p] = Packs[p],
         Costs' = Costs, corrected' = corrected
  PROVE  BalanceIsOwed'
<1> SUFFICES ASSUME NEW u \in Users PROVE credits'[u] = Owed(u)' + corrected'[u]
  BY DEF BalanceIsOwed
<1>0. credits[u] = Owed(u) + corrected[u]
  BY DEF BalanceIsOwed
<1>1. /\ \A p \in Bought(u) : Packs[p] \in Int /\ Packs'[p] \in Int
      /\ SumOver(Packs, Bought(u)) \in Int /\ SumOver(Costs, Uploaded(u)) \in Int
      /\ credits[u] \in Int /\ corrected[u] \in Int /\ InitialCredits[u] \in Int
      /\ IsFiniteSet(Bought(u))
  BY SumsTyped DEF Bought
<1>2. CASE Buyer[o] = u
  <2>1. o \in Bought(u) /\ \A p \in Bought(u) \ {o} : Packs'[p] = Packs[p]
    BY <1>2 DEF Bought
  <2>2. SumOver(Packs', Bought(u)) = SumOver(Packs, Bought(u)) + Packs'[o] - Packs[o]
    BY <1>1, <2>1, SumChange
  <2>3. credits'[u] = credits[u] + Packs'[o] - Packs[o]
    BY <1>2, Typed
  <2>4. Packs[o] \in Int /\ Packs'[o] \in Int
    BY <1>1, <2>1
  <2>5. QED
    BY <1>0, <1>1, <2>2, <2>3, <2>4, OwedIsSum
<1>3. CASE Buyer[o] # u
  <2>1. \A p \in Bought(u) : Packs'[p] = Packs[p]
    BY <1>3 DEF Bought
  <2>2. SumOver(Packs', Bought(u)) = SumOver(Packs, Bought(u))
    BY <1>1, <2>1, SumSame
  <2>3. credits'[u] = credits[u]
    BY <1>3, Typed
  <2>4. QED
    BY <1>0, <2>2, <2>3, OwedIsSum
<1>4. QED
  BY <1>2, <1>3

LEMMA UploadMoves ==
  ASSUME Inv, BalanceIsOwed, NEW a \in Analyses,
         credits' = [credits EXCEPT ![Owner[a]] = @ + Costs[a] - Costs'[a]],
         \A b \in Analyses : Costs'[b] \in Int,
         \A b \in Analyses \ {a} : Costs'[b] = Costs[b],
         Packs' = Packs, corrected' = corrected
  PROVE  BalanceIsOwed'
<1> SUFFICES ASSUME NEW u \in Users PROVE credits'[u] = Owed(u)' + corrected'[u]
  BY DEF BalanceIsOwed
<1>0. credits[u] = Owed(u) + corrected[u]
  BY DEF BalanceIsOwed
<1>1. /\ \A b \in Uploaded(u) : Costs[b] \in Int /\ Costs'[b] \in Int
      /\ SumOver(Packs, Bought(u)) \in Int /\ SumOver(Costs, Uploaded(u)) \in Int
      /\ credits[u] \in Int /\ corrected[u] \in Int /\ InitialCredits[u] \in Int
      /\ IsFiniteSet(Uploaded(u))
  BY SumsTyped DEF Uploaded
<1>2. CASE Owner[a] = u
  <2>1. a \in Uploaded(u) /\ \A b \in Uploaded(u) \ {a} : Costs'[b] = Costs[b]
    BY <1>2 DEF Uploaded
  <2>2. SumOver(Costs', Uploaded(u)) = SumOver(Costs, Uploaded(u)) + Costs'[a] - Costs[a]
    BY <1>1, <2>1, SumChange
  <2>3. credits'[u] = credits[u] + Costs[a] - Costs'[a]
    BY <1>2, Typed
  <2>4. Costs[a] \in Int /\ Costs'[a] \in Int
    BY <1>1, <2>1
  <2>5. QED
    BY <1>0, <1>1, <2>2, <2>3, <2>4, OwedIsSum
<1>3. CASE Owner[a] # u
  <2>1. \A b \in Uploaded(u) : Costs'[b] = Costs[b]
    BY <1>3 DEF Uploaded
  <2>2. SumOver(Costs', Uploaded(u)) = SumOver(Costs, Uploaded(u))
    BY <1>1, <2>1, SumSame
  <2>3. credits'[u] = credits[u]
    BY <1>3, Typed
  <2>4. QED
    BY <1>0, <2>2, <2>3, OwedIsSum
<1>4. QED
  BY <1>2, <1>3

\* The balance depends on what is owed and on the corrections only.
LEMMA NothingMoves ==
  ASSUME BalanceIsOwed, UNCHANGED <<credits, corrected>>, Packs' = Packs, Costs' = Costs
  PROVE  BalanceIsOwed'
BY OwedIsSum DEF BalanceIsOwed

LEMMA BalanceStep == Inv /\ BalanceIsOwed /\ [Next]_vars => BalanceIsOwed'
<1> SUFFICES ASSUME Inv, BalanceIsOwed, [Next]_vars PROVE BalanceIsOwed'
  OBVIOUS
<1>0. /\ \A o \in Orders : Packs[o] \in Int /\ Packs'[o] \in Int
      /\ \A a \in Analyses : Costs[a] \in Int /\ Costs'[a] \in Int
  <2>1. Inv'
    BY InvStep
  <2>2. \A o \in Orders : Packs'[o] \in Int
    BY <2>1 DEF Inv, PP!PaymentsInv, PP!TypeOK, Packs
  <2>3. \A a \in Analyses : Costs'[a] \in Int
    BY <2>1 DEF Inv, AP!CreditInv, AP!TypeOK, AP!Ledger, Costs
  <2>4. QED
    BY <2>2, <2>3, BalanceTypes
<1>1. CASE Upload
  <2>1. Packs' = Packs /\ corrected' = corrected
    BY <1>1 DEF Upload, paymentsVars, formVars, Packs
  <2>2. \/ UNCHANGED <<credits, tickets>>
        \/ \E a \in Analyses :
             /\ credits' = [credits EXCEPT ![Owner[a]] = @ + AP!Net(a) - AP!Net(a)']
             /\ \A b \in Analyses \ {a} : AP!Net(b)' = AP!Net(b)
    BY <1>1, UploadStep, UploadsAssumed, AP!NetMoves DEF Inv
  <2>3. CASE UNCHANGED <<credits, tickets>>
    BY <2>1, <2>3, NothingMoves DEF Costs
  <2>4. ASSUME NEW a \in Analyses,
               credits' = [credits EXCEPT ![Owner[a]] = @ + AP!Net(a) - AP!Net(a)'],
               \A b \in Analyses \ {a} : AP!Net(b)' = AP!Net(b)
        PROVE  BalanceIsOwed'
    <3>1. \A b \in Analyses : Costs[b] = AP!Net(b) /\ Costs'[b] = AP!Net(b)'
      BY DEF Costs, AP!Net
    <3>2. /\ credits' = [credits EXCEPT ![Owner[a]] = @ + Costs[a] - Costs'[a]]
          /\ \A b \in Analyses \ {a} : Costs'[b] = Costs[b]
      BY <2>4, <3>1
    <3>3. QED
      BY <1>0, <2>1, <3>2, UploadMoves
  <2>5. QED
    BY <2>2, <2>3, <2>4
<1>2. CASE Webhook
  <2>1. Costs' = Costs /\ corrected' = corrected
    BY <1>2 DEF Webhook, analysesVars, formVars, Costs
  <2>2. \/ UNCHANGED <<credits, payments, orders>>
        \/ \E o \in Orders :
             /\ PP!Grants(o) \/ PP!TakesBack(o) \/ PP!Closes(o)
             /\ credits' = [credits EXCEPT ![Buyer[o]] = @ + PP!Net(o)' - PP!Net(o)]
             /\ \A p \in Orders \ {o} : PP!OrderStands(p)
    BY <1>2, WebhookStep, OrdersAssumed, PP!WebhookMoves DEF Inv
  <2>3. CASE UNCHANGED <<credits, payments, orders>>
    BY <2>1, <2>3, NothingMoves DEF Packs
  <2>4. ASSUME NEW o \in Orders,
               credits' = [credits EXCEPT ![Buyer[o]] = @ + PP!Net(o)' - PP!Net(o)],
               \A p \in Orders \ {o} : PP!OrderStands(p)
        PROVE  BalanceIsOwed'
    <3>1. \A p \in Orders : Packs[p] = PP!Net(p) /\ Packs'[p] = PP!Net(p)'
      BY DEF Packs, PP!Net
    <3>2. /\ credits' = [credits EXCEPT ![Buyer[o]] = @ + Packs'[o] - Packs[o]]
          /\ \A p \in Orders \ {o} : Packs'[p] = Packs[p]
      BY <2>4, <3>1 DEF PP!OrderStands
    <3>3. QED
      BY <1>0, <2>1, <3>2, OrderMoves
  <2>5. QED
    BY <2>2, <2>3, <2>4
<1>3. CASE OpenForm \/ UNCHANGED vars
  <2>1. UNCHANGED <<credits, corrected>> /\ Packs' = Packs /\ Costs' = Costs
    BY <1>3, FormStep DEF OpenForm, vars, formVars, analysesVars, paymentsVars, Packs, Costs
  <2>2. QED
    BY <2>1, NothingMoves
<1>4. CASE SaveForm
  <2>1. PICK f \in form :
           /\ credits' = [credits EXCEPT ![f[1]] = f[2]]
           /\ corrected' = [corrected EXCEPT ![f[1]] = @ + f[2] - credits[f[1]]]
    BY <1>4 DEF SaveForm
  <2>2. PICK v \in Users, n \in Nat : v = f[1] /\ n = f[2]
    BY DEF Inv, FormInv
  <2>3. Packs' = Packs /\ Costs' = Costs
    BY <1>4 DEF SaveForm, analysesVars, paymentsVars, Packs, Costs
  <2>4. ASSUME NEW u \in Users PROVE credits'[u] = Owed(u)' + corrected'[u]
    <3>1. Owed(u)' = Owed(u)
      BY <2>3, OwedIsSum
    <3>2. credits[u] = Owed(u) + corrected[u]
      BY DEF BalanceIsOwed
    <3>3. PICK d \in Int : d = Owed(u)
      <4>1. SumOver(Packs, Bought(u)) \in Int /\ SumOver(Costs, Uploaded(u)) \in Int
        BY BalanceTypes, TablesFinite, SumType DEF Bought, Uploaded
      <4>2. QED
        BY <4>1, OwedIsSum, CreditAssumption
    <3>4. credits[u] \in Nat /\ corrected[u] \in Int
      BY BalanceTypes
    <3>5. CASE u = v
      <4>1. credits'[u] = n /\ corrected'[u] = corrected[u] + n - credits[u]
        BY <2>1, <2>2, <3>5, Typed DEF Inv, FormInv
      <4>2. QED
        BY <3>1, <3>2, <3>3, <3>4, <4>1
    <3>6. CASE u # v
      <4>1. credits'[u] = credits[u] /\ corrected'[u] = corrected[u]
        BY <2>1, <2>2, <3>6, Typed DEF Inv, FormInv
      <4>2. QED
        BY <3>1, <3>2, <4>1
    <3>7. QED
      BY <3>5, <3>6
  <2>5. QED
    BY <2>4 DEF BalanceIsOwed
<1>5. QED
  BY <1>1, <1>2, <1>3, <1>4 DEF Next

\* No credit appears or gets lost between uploads, webhooks and the admin form:
\* for any number of each, a balance is what its orders and uploads add up to,
\* and differs from it only by what saved forms overwrote.
THEOREM BalancesOwed == Spec => []BalanceIsOwed
BY BalanceInit, BalanceStep, InvInit, InvStep, PTL DEF Spec

---------------------------------------------------------------------------
(* The composition implements the credit book. *)

BookOrder == [o \in Orders |-> CASE payments[o].status = "none" -> "open"
                                 [] payments[o].status = "refunded" -> "closed"
                                 [] OTHER -> "granted"]
BookTicket == [a \in Analyses |-> A!Ticket(a)]

LEMMA BookOrderIs ==
  /\ \A o \in Orders :
       /\ payments[o].status = "none" => BookOrder[o] = "open"
       /\ payments[o].status = "refunded" => BookOrder[o] = "closed"
       /\ payments[o].status \in {"paid", "unmatched"} => BookOrder[o] = "granted"
  /\ \A o \in Orders :
       /\ payments'[o].status = "none" => BookOrder'[o] = "open"
       /\ payments'[o].status = "refunded" => BookOrder'[o] = "closed"
       /\ payments'[o].status \in {"paid", "unmatched"} => BookOrder'[o] = "granted"
  /\ \A o \in Orders : payments'[o].status = payments[o].status => BookOrder'[o] = BookOrder[o]
BY DEF BookOrder

LEMMA BookUpload ==
  ASSUME Inv, Upload
  PROVE  [Book!BookNext]_(Book!bookVars)
<1>1. [AP!Accounting!Next]_(AP!Accounting!vars)
  BY UploadStep, UploadsAssumed, AP!LedgerStep DEF Inv
<1>2. BookOrder' = BookOrder
  BY DEF Upload, paymentsVars, BookOrder
<1>3. [Book!Next]_(Book!vars)
  BY <1>1 DEF AP!Accounting!Next, AP!Accounting!vars, Book!Next, Book!vars,
     AP!Accounting!Charge, AP!Accounting!GiveBack, AP!Accounting!Keep,
     Book!Charge, Book!GiveBack, Book!Keep, AP!Ticket, A!Ticket
<1>4. QED
  BY <1>2, <1>3 DEF Book!BookNext, Book!bookVars, Book!vars, BookOrder

LEMMA BookMoves ==
  ASSUME NEW o \in Orders, \A p \in Orders \ {o} : PP!OrderStands(p)
  PROVE  BookOrder' = [BookOrder EXCEPT ![o] = BookOrder'[o]]
<1>1. \A p \in Orders \ {o} : BookOrder'[p] = BookOrder[p]
  BY BookOrderIs DEF PP!OrderStands
<1>2. BookOrder = [p \in Orders |-> BookOrder[p]] /\ BookOrder' = [p \in Orders |-> BookOrder'[p]]
  BY Zenon DEF BookOrder
<1>3. QED
  BY <1>1, <1>2

LEMMA BookWebhook ==
  ASSUME Inv, Webhook
  PROVE  [Book!BookNext]_(Book!bookVars)
<1>1. BookTicket' = BookTicket
  BY DEF Webhook, analysesVars, BookTicket, A!Ticket
<1>2. CASE UNCHANGED <<credits, payments, orders>>
  <2>1. BookOrder' = BookOrder
    BY <1>2 DEF BookOrder
  <2>2. QED
    BY <1>1, <1>2, <2>1 DEF Book!bookVars, BookOrder, BookTicket
<1>3. ASSUME NEW o \in Orders, PP!Grants(o) \/ PP!TakesBack(o) \/ PP!Closes(o),
             \A p \in Orders \ {o} : PP!OrderStands(p)
      PROVE  Book!Grant(o) \/ Book!TakeBack(o) \/ Book!Close(o)
  <2>0. BookOrder' = [BookOrder EXCEPT ![o] = BookOrder'[o]]
    BY <1>3, BookMoves
  <2>1. CASE PP!Grants(o)
    <3>1. BookOrder[o] = "open" /\ BookOrder'[o] = "granted"
      BY <2>1, BookOrderIs DEF PP!Grants
    <3>2. QED
      BY <1>1, <2>0, <2>1, <3>1 DEF PP!Grants, Book!Grant, BookOrder, BookTicket
  <2>2. CASE PP!TakesBack(o)
    <3>1. BookOrder[o] = "granted" /\ BookOrder'[o] = "closed"
      BY <2>2, BookOrderIs DEF PP!TakesBack
    <3>2. credits' = [credits EXCEPT ![Buyer[o]] = @ - Book!Min({@, Pack[o]})]
      BY <2>2, Zenon DEF PP!TakesBack, PP!Min, Book!Min
    <3>3. QED
      BY <1>1, <2>0, <3>1, <3>2 DEF Book!TakeBack, BookOrder, BookTicket
  <2>3. CASE PP!Closes(o)
    <3>1. BookOrder[o] = "open" /\ BookOrder'[o] = "closed"
      BY <2>3, BookOrderIs DEF PP!Closes
    <3>2. QED
      BY <1>1, <2>0, <2>3, <3>1 DEF PP!Closes, Book!Close, BookOrder, BookTicket
  <2>4. QED
    BY <1>3, <2>1, <2>2, <2>3
<1>4. \/ UNCHANGED <<credits, payments, orders>>
      \/ \E o \in Orders : /\ PP!Grants(o) \/ PP!TakesBack(o) \/ PP!Closes(o)
                           /\ \A p \in Orders \ {o} : PP!OrderStands(p)
  BY WebhookStep, OrdersAssumed, PP!WebhookMoves DEF Inv
<1>5. QED
  BY <1>2, <1>3, <1>4 DEF Book!BookNext

LEMMA BookInit == Init => Book!BookInit
<1> SUFFICES ASSUME Init PROVE Book!BookInit
  OBVIOUS
<1>1. AP!Accounting!Init
  BY UploadsAssumed, SameUploadInit, AP!LedgerInit DEF Init
<1>2. \A o \in Orders : BookOrder[o] = "open"
  BY BookOrderIs DEF Init, P!Init, P!NoPayment
<1>3. BookOrder = [o \in Orders |-> "open"]
  BY <1>2 DEF BookOrder
<1>4. QED
  BY <1>1, <1>3 DEF AP!Accounting!Init, Book!BookInit, Book!Init, AP!Ticket,
     A!Ticket, BookOrder

LEMMA BookStep == Inv /\ [Next]_vars => [Book!BookNext \/ SaveForm]_(Book!bookVars)
<1> SUFFICES ASSUME Inv, [Next]_vars PROVE [Book!BookNext \/ SaveForm]_(Book!bookVars)
  OBVIOUS
<1>1. CASE OpenForm \/ UNCHANGED vars
  <2>1. UNCHANGED <<credits, rows, tickets, payments>>
    BY <1>1, FormStep DEF OpenForm, vars, analysesVars, paymentsVars
  <2>2. BookTicket' = BookTicket /\ BookOrder' = BookOrder
    BY <2>1 DEF BookTicket, BookOrder, A!Ticket
  <2>3. QED
    BY <2>1, <2>2 DEF Book!bookVars, BookOrder, BookTicket
<1>2. QED
  BY <1>1, BookUpload, BookWebhook DEF Next

\* Uploads, workers and webhooks together are one credit book, for any number of
\* them and in any interleaving: each ticket is charged and returned at most
\* once, each pack granted and taken back at most once, always together with the
\* balance; only the save of an admin form steps out of the book.
THEOREM BookImplemented == Spec => ImplementsBook
<1>1. Init => Book!BookInit
  BY BookInit
<1>2. Inv /\ [Next]_vars => [Book!BookNext \/ SaveForm]_(Book!bookVars)
  BY BookStep
<1>3. QED
  BY <1>1, <1>2, InvInit, InvStep, PTL DEF Spec, ImplementsBook
=============================================================================
