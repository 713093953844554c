-------------------------- MODULE AnalysesProofs --------------------------
(***************************************************************************)
(* Theorems about Analyses, for every number of users, uploads and workers *)
(* and every set of faults: the type invariant, that credits are accounted *)
(* for and rows locked exclusively, and what a failed, a paid and a        *)
(* partial row look like.                                                  *)
(***************************************************************************)
EXTENDS Analyses, TLAPS

HandlerPc == {"new", "loaded", "committed", "compensating", "done"}
WorkerPc == {"idle", "started", "running", "saving", "saved",
             "failing", "timing_out", "raised"}

---------------------------------------------------------------------------
(* The updates of a record that the actions make keep its type. *)

LEMMA HandlerPcType ==
  ASSUME NEW h \in Handler, NEW c \in HandlerPc
  PROVE  [h EXCEPT !.pc = c] \in Handler
BY DEF Handler, HandlerPc

LEMMA HandlerLoadType ==
  ASSUME NEW h \in Handler, NEW p \in BOOLEAN
  PROVE  [h EXCEPT !.pc = "loaded", !.premium = p] \in Handler
BY DEF Handler

LEMMA HandlerTierType ==
  ASSUME NEW h \in Handler, NEW t \in {"preview", "full"}
  PROVE  [h EXCEPT !.pc = "committed", !.tier = t] \in Handler
BY DEF Handler

LEMMA HandlerLockType ==
  ASSUME NEW h \in Handler, NEW s \in {0, 1}
  PROVE  [h EXCEPT !.txn = TRUE, !.seen = s] \in Handler
BY DEF Handler

LEMMA HandlerEndType ==
  ASSUME NEW h \in Handler
  PROVE  [h EXCEPT !.pc = "done", !.txn = FALSE, !.seen = 0] \in Handler
BY DEF Handler

LEMMA WorkerPcType ==
  ASSUME NEW k \in Worker, NEW c \in WorkerPc
  PROVE  [k EXCEPT !.pc = c] \in Worker
BY DEF Worker, WorkerPc

LEMMA WorkerJobType ==
  ASSUME NEW k \in Worker, NEW a \in Analyses
  PROVE  [k EXCEPT !.pc = "started", !.job = a] \in Worker
BY DEF Worker

LEMMA WorkerWholeType ==
  ASSUME NEW k \in Worker, NEW b \in BOOLEAN
  PROVE  [k EXCEPT !.pc = "saving", !.whole = b] \in Worker
BY DEF Worker

LEMMA WorkerLockType ==
  ASSUME NEW k \in Worker, NEW s \in {0, 1}
  PROVE  [k EXCEPT !.txn = TRUE, !.seen = s] \in Worker
BY DEF Worker

LEMMA WorkerEndType ==
  ASSUME NEW k \in Worker, NEW c \in WorkerPc
  PROVE  [k EXCEPT !.pc = c, !.txn = FALSE, !.seen = 0] \in Worker
BY DEF Worker, WorkerPc

LEMMA WorkerSoftType ==
  ASSUME NEW k \in Worker, NEW c \in WorkerPc
  PROVE  [k EXCEPT !.soft = TRUE, !.txn = FALSE, !.seen = 0, !.pc = c] \in Worker
BY DEF Worker, WorkerPc

LEMMA WorkerErrorType ==
  ASSUME NEW k \in Worker, NEW c \in WorkerPc
  PROVE  [k EXCEPT !.txn = FALSE, !.seen = 0, !.pc = c] \in Worker
BY DEF Worker, WorkerPc

LEMMA IdleType == Idle \in Worker
BY DEF Idle, Worker

LEMMA RowType ==
  ASSUME NEW r \in Row
  PROVE  /\ [r EXCEPT !.status = "processing"] \in Row
         /\ [r EXCEPT !.status = "completed", !.result = "full"] \in Row
         /\ [r EXCEPT !.status = "completed", !.result = "preview"] \in Row
         /\ Failed(r) \in Row
         /\ Partial(r) \in Row
BY DEF Row, Status, Result, Failed, Partial

\* The two writes of a refund, by the handler or by a worker.
LEMMA RefundType ==
  ASSUME TypeOK, NEW a \in Analyses, NEW s \in {0, 1}, Refund(a, s)
  PROVE  credits' \in [Users -> Nat] /\ ledger' \in [Analyses -> Ledger]
<1>1. Owner[a] \in Users
  BY OwnerAssumption
<1>2. credits' \in [Users -> Nat]
  BY <1>1 DEF TypeOK, Refund
<1>3. ledger[a] \in Ledger
  BY DEF TypeOK
<1>4. [ledger[a] EXCEPT !.refunded = ledger[a].refunded + s] \in Ledger
  BY <1>3 DEF Ledger
<1>5. ledger' = [ledger EXCEPT ![a] = [ledger[a] EXCEPT !.refunded = ledger[a].refunded + s]]
  BY DEF Refund
<1>6. ledger' \in [Analyses -> Ledger]
  BY <1>4, <1>5 DEF TypeOK
<1>7. QED
  BY <1>2, <1>6

---------------------------------------------------------------------------
(* Type correctness. *)

\* A worker that executes a task has a job.
JobInv == \A w \in Workers : worker[w].pc # "idle" => worker[w].job \in Analyses

LEMMA TypeInit == Init => TypeOK /\ JobInv
<1> SUFFICES ASSUME Init PROVE TypeOK /\ JobInv
  OBVIOUS
<1>1. rows \in [Analyses -> Row]
  BY DEF Init, NoRow, Row, Status, Result
<1>2. handler \in [Analyses -> Handler]
  BY DEF Init, Handler
<1>3. worker \in [Workers -> Worker]
  BY IdleType DEF Init
<1>4. ledger \in [Analyses -> Ledger]
  BY DEF Init, Ledger
<1>5. credits \in [Users -> Nat] /\ losses \in 0..MaxLosses
  BY CreditAssumption, BoundAssumption DEF Init
<1>6. queue \in [Analyses -> Nat]
  BY DEF Init
<1>7. JobInv
  BY DEF Init, JobInv, Idle
<1>8. QED
  BY <1>1, <1>2, <1>3, <1>4, <1>5, <1>6, <1>7 DEF TypeOK

LEMMA TypeStep == TypeOK /\ JobInv /\ [Next]_vars => TypeOK' /\ JobInv'
<1> SUFFICES ASSUME TypeOK, JobInv, [Next]_vars PROVE TypeOK' /\ JobInv'
  OBVIOUS
<1> DEFINE Good == TypeOK /\ JobInv
<1>1. ASSUME NEW a \in Analyses, Reject(a) PROVE Good'
  <2>1. handler' \in [Analyses -> Handler]
    BY <1>1, HandlerPcType DEF TypeOK, HandlerPc, Reject
  <2> QED
    BY <1>1, <2>1 DEF Reject, TypeOK, JobInv
<1>2. ASSUME NEW a \in Analyses, LoadUser(a) PROVE Good'
  <2>1. PICK p \in BOOLEAN : handler' = [handler EXCEPT ![a].pc = "loaded", ![a].premium = p]
    BY <1>2 DEF LoadUser
  <2>2. handler' \in [Analyses -> Handler]
    BY <1>2, <2>1, HandlerLoadType DEF TypeOK
  <2> QED
    BY <1>2, <2>1, <2>2 DEF LoadUser, TypeOK, JobInv
<1>3. ASSUME NEW a \in Analyses, ChargeAndInsert(a) PROVE Good'
  <2>1. Charged(a) \in {0, 1} /\ credits[Owner[a]] - Charged(a) \in Nat
    BY <1>3, OwnerAssumption DEF Charged, TypeOK
  <2>2. Unlocked(a) \in BOOLEAN
    BY <1>3 DEF Unlocked, TypeOK, Handler
  <2>3. (IF Unlocked(a) THEN "full" ELSE "preview") \in {"preview", "full"}
    BY <1>3 DEF ChargeAndInsert
  <2>4. handler' \in [Analyses -> Handler]
    BY <1>3, <2>3, HandlerTierType DEF TypeOK, ChargeAndInsert
  <2>5. rows' \in [Analyses -> Row]
    BY <1>3, <2>1, <2>2 DEF TypeOK, ChargeAndInsert, Row, Status, Result
  <2>6. credits' \in [Users -> Nat]
    BY <1>3, <2>1 DEF TypeOK, ChargeAndInsert
  <2>7. ledger' \in [Analyses -> Ledger]
    BY <1>3, <2>1 DEF TypeOK, ChargeAndInsert, Ledger
  <2> QED
    BY <1>3, <2>1, <2>2, <2>3, <2>4, <2>5, <2>6, <2>7 DEF ChargeAndInsert,
       TypeOK, JobInv
<1>4. ASSUME NEW a \in Analyses, RefreshFails(a) PROVE Good'
  <2>1. handler' \in [Analyses -> Handler]
    BY <1>4, HandlerPcType DEF TypeOK, HandlerPc, RefreshFails
  <2> QED
    BY <1>4, <2>1 DEF RefreshFails, TypeOK, JobInv
<1>5. ASSUME NEW a \in Analyses, EnqueueOk(a) PROVE Good'
  <2>1. handler' \in [Analyses -> Handler]
    BY <1>5, HandlerPcType DEF TypeOK, HandlerPc, EnqueueOk, Enqueue
  <2> QED
    BY <1>5, <2>1 DEF EnqueueOk, TypeOK, JobInv, Enqueue
<1>6. ASSUME NEW a \in Analyses, EnqueueTwice(a) PROVE Good'
  <2>1. handler' \in [Analyses -> Handler]
    BY <1>6, HandlerPcType DEF TypeOK, HandlerPc, EnqueueTwice, Enqueue
  <2> QED
    BY <1>6, <2>1 DEF EnqueueTwice, TypeOK, JobInv, Enqueue
<1>7. ASSUME NEW a \in Analyses, EnqueueError(a) PROVE Good'
  <2>1. handler' \in [Analyses -> Handler]
    BY <1>7, HandlerPcType DEF TypeOK, HandlerPc, EnqueueError, Enqueue
  <2> QED
    BY <1>7, <2>1 DEF EnqueueError, TypeOK, JobInv, Enqueue
<1>8. ASSUME NEW a \in Analyses, EnqueueAmbiguous(a) PROVE Good'
  <2>1. handler' \in [Analyses -> Handler]
    BY <1>8, HandlerPcType DEF TypeOK, HandlerPc, EnqueueAmbiguous, Enqueue
  <2> QED
    BY <1>8, <2>1 DEF EnqueueAmbiguous, TypeOK, JobInv, Enqueue
<1>9. ASSUME NEW a \in Analyses, CompensateSelect(a) PROVE Good'
  <2>1. rows[a].spent \in {0, 1}
    BY <1>9 DEF TypeOK, Row
  <2>2. handler' \in [Analyses -> Handler]
    BY <1>9, <2>1, HandlerLockType DEF TypeOK, CompensateSelect
  <2> QED
    BY <1>9, <2>1, <2>2 DEF CompensateSelect, TypeOK, JobInv
<1>10. ASSUME NEW a \in Analyses, CompensateCommit(a) PROVE Good'
  <2>1. handler[a].seen \in {0, 1}
    BY <1>10 DEF TypeOK, Handler
  <2>2. credits' \in [Users -> Nat] /\ ledger' \in [Analyses -> Ledger]
    BY <1>10, <2>1, RefundType DEF CompensateCommit
  <2>3. rows' \in [Analyses -> Row]
    BY <1>10, RowType DEF TypeOK, CompensateCommit
  <2>4. handler' \in [Analyses -> Handler]
    BY <1>10, HandlerEndType DEF TypeOK, CompensateCommit
  <2> QED
    BY <1>10, <2>1, <2>2, <2>3, <2>4 DEF CompensateCommit, TypeOK, JobInv
<1>11. ASSUME NEW a \in Analyses, CompensateMissing(a) PROVE Good'
  <2>1. handler' \in [Analyses -> Handler]
    BY <1>11, HandlerPcType DEF TypeOK, HandlerPc, CompensateMissing
  <2> QED
    BY <1>11, <2>1 DEF CompensateMissing, TypeOK, JobInv
<1>12. ASSUME NEW a \in Analyses, HandlerDies(a) PROVE Good'
  <2>1. handler' \in [Analyses -> Handler]
    BY <1>12, HandlerEndType DEF TypeOK, HandlerDies
  <2> QED
    BY <1>12, <2>1 DEF HandlerDies, TypeOK, JobInv
<1>13. ASSUME NEW a \in Analyses, Delete(a) PROVE Good'
  <2>1. rows' \in [Analyses -> Row]
    BY <1>13 DEF TypeOK, Delete, NoRow, Row, Status, Result
  <2>2. rows[a].spent \in {0, 1}
    BY <1>13 DEF TypeOK, Row
  <2>3. ledger' \in [Analyses -> Ledger]
    BY <1>13, <2>2 DEF TypeOK, Delete, Ledger
  <2> QED
    BY <1>13, <2>1, <2>2, <2>3 DEF Delete, TypeOK, JobInv
<1>14. ASSUME NEW w \in Workers, Receive(w) PROVE Good'
  <2>1. PICK a \in Analyses :
           /\ queue[a] > 0
           /\ queue' = [queue EXCEPT ![a] = @ - 1]
           /\ worker' = [worker EXCEPT ![w].pc = "started", ![w].job = a]
    BY <1>14 DEF Receive
  <2>2. worker' \in [Workers -> Worker]
    BY <1>14, <2>1, WorkerJobType DEF TypeOK
  <2>3. queue' \in [Analyses -> Nat]
    BY <1>14, <2>1 DEF TypeOK
  <2>4. JobInv'
    BY <1>14, <2>1 DEF JobInv, TypeOK, Worker
  <2> QED
    BY <1>14, <2>1, <2>2, <2>3, <2>4 DEF Receive, TypeOK, JobInv
<1>15. ASSUME NEW w \in Workers, MarkProcessing(w) PROVE Good'
  <2>1. worker[w].job \in Analyses
    BY <1>15 DEF JobInv, MarkProcessing
  <2>2. worker' \in [Workers -> Worker]
    BY <1>15, WorkerPcType DEF TypeOK, WorkerPc, MarkProcessing
  <2>3. rows' \in [Analyses -> Row]
    BY <1>15, <2>1, RowType DEF TypeOK, MarkProcessing
  <2>4. JobInv'
    BY <1>15, <2>1 DEF JobInv, TypeOK, Worker, MarkProcessing
  <2> QED
    BY <1>15, <2>1, <2>2, <2>3, <2>4 DEF MarkProcessing, TypeOK, JobInv
<1>16. ASSUME NEW w \in Workers, Analyze(w) PROVE Good'
  <2>1. worker[w].job \in Analyses
    BY <1>16 DEF JobInv, Analyze
  <2>2. PICK whole \in BOOLEAN : worker' = [worker EXCEPT ![w].pc = "saving", ![w].whole = whole]
    BY <1>16 DEF Analyze
  <2>3. worker' \in [Workers -> Worker]
    BY <1>16, <2>2, WorkerWholeType DEF TypeOK
  <2>4. JobInv'
    BY <1>16, <2>1, <2>2 DEF JobInv, TypeOK, Worker
  <2> QED
    BY <1>16, <2>1, <2>2, <2>3, <2>4 DEF Analyze, TypeOK, JobInv
<1>17. ASSUME NEW w \in Workers, PipelineRaises(w) PROVE Good'
  <2>1. worker[w].job \in Analyses
    BY <1>17 DEF JobInv, PipelineRaises
  <2>2. worker' \in [Workers -> Worker]
    BY <1>17, WorkerPcType DEF TypeOK, WorkerPc, PipelineRaises
  <2>3. JobInv'
    BY <1>17, <2>1 DEF JobInv, TypeOK, Worker, PipelineRaises
  <2> QED
    BY <1>17, <2>1, <2>2, <2>3 DEF PipelineRaises, TypeOK, JobInv
<1>18. ASSUME NEW w \in Workers, SaveWhole(w) PROVE Good'
  <2>1. worker[w].job \in Analyses
    BY <1>18 DEF JobInv, SaveWhole
  <2>2. worker' \in [Workers -> Worker]
    BY <1>18, WorkerPcType DEF TypeOK, WorkerPc, SaveWhole
  <2>3. rows' \in [Analyses -> Row]
    BY <1>18, <2>1, RowType DEF TypeOK, SaveWhole
  <2>4. JobInv'
    BY <1>18, <2>1 DEF JobInv, TypeOK, Worker, SaveWhole
  <2> QED
    BY <1>18, <2>1, <2>2, <2>3, <2>4 DEF SaveWhole, TypeOK, JobInv
<1>19. ASSUME NEW w \in Workers, RefundSelect(w) PROVE Good'
  <2>1. worker[w].job \in Analyses
    BY <1>19 DEF JobInv, RefundSelect
  <2>2. rows[worker[w].job].spent \in {0, 1}
    BY <1>19, <2>1 DEF TypeOK, Row
  <2>3. worker' \in [Workers -> Worker]
    BY <1>19, <2>2, WorkerLockType DEF TypeOK, RefundSelect
  <2>4. JobInv'
    BY <1>19, <2>1 DEF JobInv, TypeOK, Worker, RefundSelect
  <2> QED
    BY <1>19, <2>1, <2>2, <2>3, <2>4 DEF RefundSelect, TypeOK, JobInv
<1>20. ASSUME NEW w \in Workers, SavePartial(w) PROVE Good'
  <2>1. worker[w].job \in Analyses
    BY <1>20 DEF JobInv, SavePartial
  <2>2. worker[w].seen \in {0, 1}
    BY <1>20 DEF TypeOK, Worker
  <2>3. credits' \in [Users -> Nat] /\ ledger' \in [Analyses -> Ledger]
    BY <1>20, <2>1, <2>2, RefundType DEF SavePartial
  <2>4. rows' \in [Analyses -> Row]
    BY <1>20, <2>1, RowType DEF TypeOK, SavePartial
  <2>5. worker' \in [Workers -> Worker]
    BY <1>20, WorkerEndType DEF TypeOK, WorkerPc, SavePartial
  <2>6. JobInv'
    BY <1>20, <2>1 DEF JobInv, TypeOK, Worker, SavePartial
  <2> QED
    BY <1>20, <2>1, <2>2, <2>3, <2>4, <2>5, <2>6 DEF SavePartial, TypeOK, JobInv
<1>21. ASSUME NEW w \in Workers, FailCommit(w) PROVE Good'
  <2>1. worker[w].job \in Analyses
    BY <1>21 DEF JobInv, FailCommit
  <2>2. worker[w].seen \in {0, 1}
    BY <1>21 DEF TypeOK, Worker
  <2>3. credits' \in [Users -> Nat] /\ ledger' \in [Analyses -> Ledger]
    BY <1>21, <2>1, <2>2, RefundType DEF FailCommit
  <2>4. rows' \in [Analyses -> Row]
    BY <1>21, <2>1, RowType DEF TypeOK, FailCommit
  <2>5. worker' \in [Workers -> Worker]
    BY <1>21, WorkerEndType DEF TypeOK, WorkerPc, FailCommit, AfterFailed
  <2>6. JobInv'
    BY <1>21, <2>1 DEF JobInv, TypeOK, Worker, FailCommit
  <2> QED
    BY <1>21, <2>1, <2>2, <2>3, <2>4, <2>5, <2>6 DEF FailCommit, TypeOK, JobInv
<1>22. ASSUME NEW w \in Workers, FailMissing(w) PROVE Good'
  <2>1. worker[w].job \in Analyses
    BY <1>22 DEF JobInv, FailMissing
  <2>2. worker' \in [Workers -> Worker]
    BY <1>22, WorkerPcType DEF TypeOK, WorkerPc, FailMissing, AfterFailed
  <2>3. JobInv'
    BY <1>22, <2>1 DEF JobInv, TypeOK, Worker, FailMissing
  <2> QED
    BY <1>22, <2>1, <2>2, <2>3 DEF FailMissing, TypeOK, JobInv
<1>23. ASSUME NEW w \in Workers, Ack(w) PROVE Good'
  <2>1. worker' \in [Workers -> Worker]
    BY <1>23, IdleType DEF TypeOK, Ack
  <2>2. JobInv'
    BY <1>23 DEF JobInv, TypeOK, Ack, Idle
  <2> QED
    BY <1>23, <2>1, <2>2 DEF Ack, TypeOK, JobInv
<1>24. ASSUME NEW w \in Workers, SoftLimit(w) PROVE Good'
  <2>1. worker[w].job \in Analyses
    BY <1>24 DEF JobInv, SoftLimit
  <2>2. worker' \in [Workers -> Worker]
    BY <1>24, WorkerSoftType DEF TypeOK, WorkerPc, SoftLimit
  <2>3. JobInv'
    BY <1>24, <2>1 DEF JobInv, TypeOK, Worker, SoftLimit
  <2> QED
    BY <1>24, <2>1, <2>2, <2>3 DEF SoftLimit, TypeOK, JobInv
<1>25. ASSUME NEW w \in Workers, HardLimit(w) PROVE Good'
  <2>1. worker' \in [Workers -> Worker]
    BY <1>25, IdleType DEF TypeOK, HardLimit
  <2>2. JobInv'
    BY <1>25 DEF JobInv, TypeOK, HardLimit, Idle
  <2> QED
    BY <1>25, <2>1, <2>2 DEF HardLimit, TypeOK, JobInv
<1>26. ASSUME NEW w \in Workers, DbError(w) PROVE Good'
  <2>1. worker[w].job \in Analyses
    BY <1>26 DEF JobInv, DbError
  <2>2. worker' \in [Workers -> Worker]
    BY <1>26, WorkerErrorType DEF TypeOK, WorkerPc, DbError
  <2>3. JobInv'
    BY <1>26, <2>1 DEF JobInv, TypeOK, Worker, DbError
  <2> QED
    BY <1>26, <2>1, <2>2, <2>3 DEF DbError, TypeOK, JobInv
<1>27. ASSUME NEW w \in Workers, WorkerLost(w) PROVE Good'
  <2>1. worker[w].job \in Analyses
    BY <1>27 DEF JobInv, WorkerLost
  <2>2. worker' \in [Workers -> Worker]
    BY <1>27, IdleType DEF TypeOK, WorkerLost
  <2>3. JobInv'
    BY <1>27 DEF JobInv, TypeOK, WorkerLost, Idle
  <2>4. queue' \in [Analyses -> Nat] /\ losses' \in 0..MaxLosses
    BY <1>27, <2>1, BoundAssumption DEF TypeOK, WorkerLost
  <2> QED
    BY <1>27, <2>1, <2>2, <2>3, <2>4 DEF WorkerLost, TypeOK, JobInv
<1>28. CASE UNCHANGED vars
  BY <1>28 DEF vars, TypeOK, JobInv
<1> QED
  BY <1>1, <1>2, <1>3, <1>4, <1>5, <1>6, <1>7, <1>8, <1>9, <1>10, <1>11, <1>12,
     <1>13, <1>14, <1>15, <1>16, <1>17, <1>18, <1>19, <1>20, <1>21, <1>22, <1>23,
     <1>24, <1>25, <1>26, <1>27, <1>28 DEF Next, Answer, Work, Interrupt

\* Every reachable state is well typed: in particular balances and the
\* lengths of the queue are naturals and credits_spent is 0 or 1.
THEOREM TypeCorrect == Spec => []TypeOK
<1>1. Init => TypeOK /\ JobInv
  BY TypeInit
<1>2. TypeOK /\ JobInv /\ [Next]_vars => TypeOK' /\ JobInv'
  BY TypeStep
<1>3. QED
  BY <1>1, <1>2, PTL DEF Spec

---------------------------------------------------------------------------
(* Credits and row locks. *)

\* A transaction is open only where the code has one, the row it locked
\* exists, and what it read under the lock is still true.
LockInv ==
  /\ \A a \in Analyses : handler[a].txn =>
       /\ handler[a].pc = "compensating"
       /\ Exists(a)
       /\ handler[a].seen = rows[a].spent
  /\ \A w \in Workers : worker[w].txn =>
       /\ worker[w].pc \in {"saving", "failing", "timing_out"}
       /\ worker[w].job \in Analyses
       /\ Exists(worker[w].job)
       /\ worker[w].seen = rows[worker[w].job].spent

\* No row before the insert, no credit on a missing row, none lost while the
\* row exists, and nothing in the ledger before the charge.
RowInv ==
  \A a \in Analyses :
    /\ ~Exists(a) => rows[a].spent = 0
    /\ Exists(a) => ledger[a].kept = 0 /\ handler[a].pc \notin {"new", "loaded"}
    /\ handler[a].pc \in {"new", "loaded"} =>
         ledger[a].charged = 0 /\ ledger[a].refunded = 0 /\ ledger[a].kept = 0

\* The inductive invariant.  CreditAccounted alone is not inductive: a refund
\* adds the credits_spent it read, so it must still be the row's (LockInv),
\* which nobody else may change meanwhile (RowLockExclusive); and a charge
\* must find an empty ledger (RowInv).
CreditInv == TypeOK /\ JobInv /\ RowLockExclusive /\ LockInv /\ RowInv /\ CreditAccounted

LEMMA CreditInit == Init => CreditInv
<1> SUFFICES ASSUME Init PROVE CreditInv
  OBVIOUS
<1>1. TypeOK /\ JobInv
  BY TypeInit
<1>2. RowLockExclusive /\ LockInv
  BY DEF Init, Idle, RowLockExclusive, LockInv, Holds
<1>3. RowInv /\ CreditAccounted
  BY DEF Init, NoRow, RowInv, CreditAccounted, Exists
<1>4. QED
  BY <1>1, <1>2, <1>3 DEF CreditInv

LEMMA CreditStutter == CreditInv /\ UNCHANGED vars => CreditInv'
<1> SUFFICES ASSUME CreditInv, UNCHANGED vars PROVE CreditInv'
  OBVIOUS
<1> USE DEF vars, CreditInv
<1>1. TypeOK' /\ JobInv'
  BY TypeStep
<1>2. RowLockExclusive' /\ LockInv'
  BY DEF RowLockExclusive, LockInv, Holds, Exists
<1>3. RowInv' /\ CreditAccounted'
  BY DEF RowInv, CreditAccounted, Exists
<1>4. QED
  BY <1>1, <1>2, <1>3

LEMMA CreditStep == CreditInv /\ [Next]_vars => CreditInv'
<1> SUFFICES ASSUME CreditInv, [Next]_vars PROVE CreditInv'
  OBVIOUS
<1> TypeOK /\ JobInv /\ RowLockExclusive /\ LockInv /\ RowInv /\ CreditAccounted
  BY DEF CreditInv
<1> DEFINE Good == RowLockExclusive /\ LockInv /\ RowInv /\ CreditAccounted
<1>0. TypeOK' /\ JobInv'
  BY TypeStep
<1> USE DEF TypeOK, JobInv, RowLockExclusive, LockInv, RowInv, CreditAccounted,
            Row, Status, Result, Handler, Worker, Ledger, Exists, Holds, RowFree
<1>1. ASSUME NEW a \in Analyses, Reject(a) PROVE Good'
  BY <1>1 DEF Reject
<1>2. ASSUME NEW a \in Analyses, LoadUser(a) PROVE Good'
  BY <1>2 DEF LoadUser
<1>3. ASSUME NEW a \in Analyses, ChargeAndInsert(a) PROVE Good'
  BY <1>3 DEF ChargeAndInsert, Charged, Unlocked
<1>4. ASSUME NEW a \in Analyses, RefreshFails(a) PROVE Good'
  BY <1>4 DEF RefreshFails
<1>5. ASSUME NEW a \in Analyses, EnqueueOk(a) PROVE Good'
  BY <1>5 DEF EnqueueOk, Enqueue
<1>6. ASSUME NEW a \in Analyses, EnqueueTwice(a) PROVE Good'
  BY <1>6 DEF EnqueueTwice, Enqueue
<1>7. ASSUME NEW a \in Analyses, EnqueueError(a) PROVE Good'
  BY <1>7 DEF EnqueueError, Enqueue
<1>8. ASSUME NEW a \in Analyses, EnqueueAmbiguous(a) PROVE Good'
  BY <1>8 DEF EnqueueAmbiguous, Enqueue
<1>9. ASSUME NEW a \in Analyses, CompensateSelect(a) PROVE Good'
  BY <1>9 DEF CompensateSelect
<1>10. ASSUME NEW a \in Analyses, CompensateCommit(a) PROVE Good'
  BY <1>10 DEF CompensateCommit, Refund, Failed
<1>11. ASSUME NEW a \in Analyses, CompensateMissing(a) PROVE Good'
  BY <1>11 DEF CompensateMissing
<1>12. ASSUME NEW a \in Analyses, HandlerDies(a) PROVE Good'
  BY <1>12 DEF HandlerDies
<1>13. ASSUME NEW a \in Analyses, Delete(a) PROVE Good'
  BY <1>13 DEF Delete, NoRow
<1>14. ASSUME NEW w \in Workers, Receive(w) PROVE Good'
  <2>1. PICK b \in Analyses : worker' = [worker EXCEPT ![w].pc = "started", ![w].job = b]
    BY <1>14 DEF Receive
  <2>2. worker[w] \in Worker /\ ~worker[w].txn
    BY <1>14 DEF Receive
  <2>3. ~worker'[w].txn /\ \A v \in Workers \ {w} : worker'[v] = worker[v]
    BY <2>1, <2>2
  <2>4. \A v \in Workers : worker'[v].txn => worker'[v] = worker[v]
    BY <2>2, <2>3
  <2>5. UNCHANGED <<credits, rows, handler, ledger>>
    BY <1>14 DEF Receive
  <2>6. RowLockExclusive'
    BY <2>4, <2>5
  <2>7. LockInv'
    BY <2>4, <2>5
  <2> QED
    BY <2>5, <2>6, <2>7
<1>15. ASSUME NEW w \in Workers, MarkProcessing(w) PROVE Good'
  BY <1>15 DEF MarkProcessing
<1>16. ASSUME NEW w \in Workers, Analyze(w) PROVE Good'
  BY <1>16 DEF Analyze
<1>17. ASSUME NEW w \in Workers, PipelineRaises(w) PROVE Good'
  BY <1>17 DEF PipelineRaises
<1>18. ASSUME NEW w \in Workers, SaveWhole(w) PROVE Good'
  BY <1>18 DEF SaveWhole
<1>19. ASSUME NEW w \in Workers, RefundSelect(w) PROVE Good'
  BY <1>19 DEF RefundSelect
<1>20. ASSUME NEW w \in Workers, SavePartial(w) PROVE Good'
  <2>1. RowLockExclusive'
    BY <1>20 DEF SavePartial, Partial
  <2>2. LockInv'
    BY <1>20 DEF SavePartial, Partial
  <2>3. RowInv'
    BY <1>20 DEF SavePartial, Partial, Refund
  <2>4. CreditAccounted'
    <3> DEFINE a == worker[w].job
    <3>1. /\ a \in Analyses /\ rows[a] \in Row /\ ledger[a] \in Ledger
          /\ worker[w].seen = rows[a].spent
      BY <1>20 DEF SavePartial, Partial
    <3>2. rows'[a].spent = 0
      BY <1>20, <3>1 DEF SavePartial, Partial
    <3>3. ledger'[a].charged = ledger[a].charged /\ ledger'[a].kept = ledger[a].kept
          /\ ledger'[a].refunded = ledger[a].refunded + rows[a].spent
      BY <1>20, <3>1 DEF SavePartial, Partial, Refund
    <3>4. \A b \in Analyses \ {a} : rows'[b] = rows[b] /\ ledger'[b] = ledger[b]
      BY <1>20, <3>1 DEF SavePartial, Partial, Refund
    <3>5. QED
      BY <3>1, <3>2, <3>3, <3>4
  <2> QED
    BY <2>1, <2>2, <2>3, <2>4
<1>21. ASSUME NEW w \in Workers, FailCommit(w) PROVE Good'
  <2>1. RowLockExclusive'
    BY <1>21 DEF FailCommit, Failed, AfterFailed
  <2>2. LockInv'
    BY <1>21 DEF FailCommit, Failed, AfterFailed
  <2>3. RowInv'
    BY <1>21 DEF FailCommit, Failed, AfterFailed, Refund
  <2>4. CreditAccounted'
    <3> DEFINE a == worker[w].job
    <3>1. /\ a \in Analyses /\ rows[a] \in Row /\ ledger[a] \in Ledger
          /\ worker[w].seen = rows[a].spent
      BY <1>21 DEF FailCommit, Failed, AfterFailed
    <3>2. rows'[a].spent = 0
      BY <1>21, <3>1 DEF FailCommit, Failed, AfterFailed
    <3>3. ledger'[a].charged = ledger[a].charged /\ ledger'[a].kept = ledger[a].kept
          /\ ledger'[a].refunded = ledger[a].refunded + rows[a].spent
      BY <1>21, <3>1 DEF FailCommit, Failed, AfterFailed, Refund
    <3>4. \A b \in Analyses \ {a} : rows'[b] = rows[b] /\ ledger'[b] = ledger[b]
      BY <1>21, <3>1 DEF FailCommit, Failed, AfterFailed, Refund
    <3>5. QED
      BY <3>1, <3>2, <3>3, <3>4
  <2> QED
    BY <2>1, <2>2, <2>3, <2>4
<1>22. ASSUME NEW w \in Workers, FailMissing(w) PROVE Good'
  BY <1>22 DEF FailMissing, AfterFailed
<1>23. ASSUME NEW w \in Workers, Ack(w) PROVE Good'
  BY <1>23 DEF Ack, Idle
<1>24. ASSUME NEW w \in Workers, SoftLimit(w) PROVE Good'
  BY <1>24 DEF SoftLimit
<1>25. ASSUME NEW w \in Workers, HardLimit(w) PROVE Good'
  BY <1>25 DEF HardLimit, Idle
<1>26. ASSUME NEW w \in Workers, DbError(w) PROVE Good'
  BY <1>26 DEF DbError
<1>27. ASSUME NEW w \in Workers, WorkerLost(w) PROVE Good'
  BY <1>27 DEF WorkerLost, Idle
<1>28. CASE UNCHANGED vars
  BY <1>28, CreditStutter DEF CreditInv
<1> QED
  BY <1>0, <1>1, <1>2, <1>3, <1>4, <1>5, <1>6, <1>7, <1>8, <1>9, <1>10, <1>11,
     <1>12, <1>13, <1>14, <1>15, <1>16, <1>17, <1>18, <1>19, <1>20, <1>21, <1>22,
     <1>23, <1>24, <1>25, <1>26, <1>27, <1>28 DEF Next, Answer, Work, Interrupt,
     CreditInv

\* Every credit taken for an upload is on its row, back with the owner, or
\* gone with the deleted row: no interleaving of the API's compensation, the
\* worker's failure paths and redelivered runs refunds it twice or loses it.
THEOREM CreditsAccounted == Spec => []CreditAccounted
<1>1. CreditInv => CreditAccounted
  BY DEF CreditInv
<1>2. QED
  BY <1>1, CreditInit, CreditStep, PTL DEF Spec

\* At most one transaction at a time has read a row FOR UPDATE.
THEOREM RowLocksExclusive == Spec => []RowLockExclusive
<1>1. CreditInv => RowLockExclusive
  BY DEF CreditInv
<1>2. QED
  BY <1>1, CreditInit, CreditStep, PTL DEF Spec

---------------------------------------------------------------------------
(* What a failed, a paid and a partial row look like. *)

\* The steps that write a row.
Writes == \/ \E a \in Analyses : ChargeAndInsert(a) \/ CompensateCommit(a) \/ Delete(a)
          \/ \E w \in Workers : \/ MarkProcessing(w) \/ SaveWhole(w)
                                \/ SavePartial(w) \/ FailCommit(w)

LEMMA OnlyWritesChangeRows == [Next]_vars => Writes \/ rows' = rows
BY DEF Next, Answer, Work, Interrupt, Writes, vars, Reject, LoadUser,
  RefreshFails, EnqueueOk, EnqueueTwice, EnqueueError, EnqueueAmbiguous, Enqueue,
  CompensateSelect, CompensateMissing, HandlerDies, Receive, Analyze,
  PipelineRaises, RefundSelect, FailMissing, Ack, SoftLimit, HardLimit, DbError,
  WorkerLost

ReportInv == FailedIsRefunded /\ PaidIsUnlocked /\ PartialIsLocked

LEMMA ReportStep == CreditInv /\ ReportInv /\ [Next]_vars => ReportInv'
<1> SUFFICES ASSUME CreditInv, ReportInv, [Next]_vars PROVE ReportInv'
  OBVIOUS
<1> USE DEF ReportInv, FailedIsRefunded, PaidIsUnlocked, PartialIsLocked
<1>0. rows \in [Analyses -> Row] /\ JobInv /\ LockInv
  BY DEF CreditInv, TypeOK
<1>1. ASSUME NEW a \in Analyses, ChargeAndInsert(a) PROVE ReportInv'
  BY <1>0, <1>1 DEF ChargeAndInsert, Unlocked
<1>2. ASSUME NEW a \in Analyses, CompensateCommit(a) PROVE ReportInv'
  BY <1>0, <1>2 DEF CompensateCommit, Failed, Row
<1>3. ASSUME NEW a \in Analyses, Delete(a) PROVE ReportInv'
  BY <1>0, <1>3 DEF Delete, NoRow
<1>4. ASSUME NEW w \in Workers, MarkProcessing(w) PROVE ReportInv'
  BY <1>0, <1>4 DEF MarkProcessing, JobInv, Row
<1>5. ASSUME NEW w \in Workers, SaveWhole(w) PROVE ReportInv'
  BY <1>0, <1>5 DEF SaveWhole, JobInv, Row
<1>6. ASSUME NEW w \in Workers, SavePartial(w) PROVE ReportInv'
  BY <1>0, <1>6 DEF SavePartial, Partial, LockInv, Row
<1>7. ASSUME NEW w \in Workers, FailCommit(w) PROVE ReportInv'
  BY <1>0, <1>7 DEF FailCommit, Failed, LockInv, Row
<1>8. CASE rows' = rows
  BY <1>8
<1> QED
  BY <1>1, <1>2, <1>3, <1>4, <1>5, <1>6, <1>7, <1>8, OnlyWritesChangeRows DEF Writes

LEMMA ReportInvariant == Spec => []ReportInv
<1>1. Init => ReportInv
  BY DEF Init, NoRow, ReportInv, FailedIsRefunded, PaidIsUnlocked, PartialIsLocked
<1>2. QED
  BY <1>1, CreditInit, CreditStep, ReportStep, PTL DEF Spec

\* A failed analysis never still holds its credit.
THEOREM FailedRefunded == Spec => []FailedIsRefunded
<1>1. ReportInv => FailedIsRefunded
  BY DEF ReportInv
<1>2. QED
  BY <1>1, ReportInvariant, PTL

\* A row that holds a credit is unlocked: re-locking always returns it.
THEOREM PaidUnlocked == Spec => []PaidIsUnlocked
<1>1. ReportInv => PaidIsUnlocked
  BY DEF ReportInv
<1>2. QED
  BY <1>1, ReportInvariant, PTL

\* A report that lacks a paid analyzer is locked, whichever run stored it.
THEOREM PartialLocked == Spec => []PartialIsLocked
<1>1. ReportInv => PartialIsLocked
  BY DEF ReportInv
<1>2. QED
  BY <1>1, ReportInvariant, PTL

---------------------------------------------------------------------------
(* The accounting implements CreditLedger. *)

\* The steps that move credits, or touch the history of a credit.
Moves == \/ \E a \in Analyses : ChargeAndInsert(a) \/ CompensateCommit(a) \/ Delete(a)
         \/ \E w \in Workers : SavePartial(w) \/ FailCommit(w)

LEMMA OnlyMovesChangeCredits == [Next]_vars => Moves \/ UNCHANGED <<credits, ledger>>
BY DEF Next, Answer, Work, Interrupt, Moves, vars, Reject, LoadUser,
  RefreshFails, EnqueueOk, EnqueueTwice, EnqueueError, EnqueueAmbiguous, Enqueue,
  CompensateSelect, CompensateMissing, HandlerDies, Receive, MarkProcessing,
  Analyze, PipelineRaises, SaveWhole, RefundSelect, FailMissing, Ack, SoftLimit,
  HardLimit, DbError, WorkerLost

\* A refund of what the row holds gives one held ticket back, or changes nothing.
LEMMA RefundGivesBack ==
  ASSUME CreditInv, NEW a \in Analyses, Refund(a, rows[a].spent)
  PROVE  [Accounting!Next]_(Accounting!vars)
<1>1. rows[a] \in Row /\ ledger[a] \in Ledger /\ CreditAccounted
  BY DEF CreditInv, TypeOK
<1>2. CASE rows[a].spent = 1
  <2>1. Ticket(a) = "held"
    BY <1>1, <1>2 DEF Ticket, CreditAccounted, Ledger
  <2>2. Ticket(a)' = "returned"
    BY <1>1, <1>2 DEF Ticket, CreditAccounted, Refund, Ledger, CreditInv, TypeOK
  <2>3. \A b \in Analyses \ {a} : Ticket(b)' = Ticket(b)
    BY DEF Ticket, Refund, CreditInv, TypeOK
  <2>4. credits' = [credits EXCEPT ![Owner[a]] = @ + 1]
    BY <1>2 DEF Refund
  <2>5. Accounting!GiveBack(a)
    BY <2>1, <2>2, <2>3, <2>4 DEF Accounting!GiveBack
  <2> QED
    BY <2>5 DEF Accounting!Next
<1>3. CASE rows[a].spent = 0
  <2>1. credits' = credits
    BY <1>3, OwnerAssumption DEF Refund, CreditInv, TypeOK
  <2>2. ledger' = ledger
    BY <1>1, <1>3 DEF Refund, CreditInv, TypeOK, Ledger
  <2> QED
    BY <2>1, <2>2 DEF Accounting!vars, Ticket
<1> QED
  BY <1>1, <1>2, <1>3 DEF Row

LEMMA LedgerStep == CreditInv /\ [Next]_vars => [Accounting!Next]_(Accounting!vars)
<1> SUFFICES ASSUME CreditInv, [Next]_vars PROVE [Accounting!Next]_(Accounting!vars)
  OBVIOUS
<1>0. TypeOK /\ LockInv /\ RowInv /\ CreditAccounted
  BY DEF CreditInv
<1>1. ASSUME NEW a \in Analyses, ChargeAndInsert(a) PROVE [Accounting!Next]_(Accounting!vars)
  <2>1. ledger[a] \in Ledger /\ Ticket(a) = "unused"
    BY <1>0, <1>1 DEF ChargeAndInsert, RowInv, TypeOK, Ticket
  <2>2. \A b \in Analyses \ {a} : Ticket(b)' = Ticket(b)
    BY <1>0, <1>1 DEF ChargeAndInsert, Ticket, TypeOK
  <2>3. CASE Charged(a) = 1
    <3>1. Ticket(a)' = "held"
      BY <1>0, <1>1, <2>1, <2>3 DEF ChargeAndInsert, RowInv, TypeOK, Ticket,
         Ledger
    <3>2. credits[Owner[a]] > 0
      BY <2>3 DEF Charged
    <3>3. credits' = [credits EXCEPT ![Owner[a]] = @ - 1]
      BY <1>1, <2>3 DEF ChargeAndInsert
    <3>4. Accounting!Charge(a)
      BY <2>1, <2>2, <3>1, <3>2, <3>3 DEF Accounting!Charge
    <3> QED
      BY <3>4 DEF Accounting!Next
  <2>4. CASE Charged(a) = 0
    <3>1. credits' = credits
      BY <1>0, <1>1, <2>4, OwnerAssumption DEF ChargeAndInsert, TypeOK
    <3>2. Ticket(a)' = "unused"
      BY <1>0, <1>1, <2>4 DEF ChargeAndInsert, TypeOK, Ticket, Ledger
    <3> QED
      BY <2>1, <2>2, <3>1, <3>2 DEF Accounting!vars
  <2> QED
    BY <2>3, <2>4 DEF Charged
<1>2. ASSUME NEW a \in Analyses, CompensateCommit(a) PROVE [Accounting!Next]_(Accounting!vars)
  BY <1>0, <1>2, RefundGivesBack DEF CompensateCommit, LockInv
<1>3. ASSUME NEW a \in Analyses, Delete(a) PROVE [Accounting!Next]_(Accounting!vars)
  <2>1. rows[a] \in Row /\ ledger[a] \in Ledger /\ ledger[a].kept = 0
    BY <1>0, <1>3 DEF Delete, TypeOK, RowInv
  <2>2. \A b \in Analyses \ {a} : Ticket(b)' = Ticket(b)
    BY <1>0, <1>3 DEF Delete, Ticket, TypeOK
  <2>3. CASE rows[a].spent = 1
    <3>1. Ticket(a) = "held" /\ Ticket(a)' = "kept"
      BY <1>0, <1>3, <2>1, <2>3 DEF Delete, Ticket, CreditAccounted, Ledger,
         TypeOK
    <3>2. Accounting!Keep(a)
      BY <1>3, <2>2, <3>1 DEF Accounting!Keep, Delete
    <3> QED
      BY <3>2 DEF Accounting!Next
  <2>4. CASE rows[a].spent = 0
    <3>1. ledger' = ledger
      BY <1>0, <1>3, <2>1, <2>4 DEF Delete, TypeOK, Ledger
    <3> QED
      BY <1>3, <3>1 DEF Delete, Accounting!vars, Ticket
  <2> QED
    BY <2>1, <2>3, <2>4 DEF Row
<1>4. ASSUME NEW w \in Workers, SavePartial(w) PROVE [Accounting!Next]_(Accounting!vars)
  BY <1>0, <1>4, RefundGivesBack DEF SavePartial, LockInv
<1>5. ASSUME NEW w \in Workers, FailCommit(w) PROVE [Accounting!Next]_(Accounting!vars)
  BY <1>0, <1>5, RefundGivesBack DEF FailCommit, LockInv
<1>6. CASE UNCHANGED <<credits, ledger>>
  BY <1>6 DEF Accounting!vars, Ticket
<1> QED
  BY <1>1, <1>2, <1>3, <1>4, <1>5, <1>6, OnlyMovesChangeCredits DEF Moves

LEMMA LedgerInit == Init => Accounting!Init
BY CreditAssumption DEF Init, Accounting!Init, Ticket

\* Every step of the handlers and the workers, whatever interrupts them, is a
\* step of the abstract ledger or leaves it alone.
THEOREM LedgerImplemented == Spec => ImplementsLedger
<1>1. QED
  BY LedgerInit, LedgerStep, CreditInit, CreditStep, PTL DEF Spec, ImplementsLedger,
     Accounting!Spec

\* What a ticket cost so far.
Net(a) == ledger[a].charged - ledger[a].refunded

\* A step moves credits between one balance and one ticket of its owner.
LEMMA NetMoves ==
  ASSUME CreditInv, [Next]_vars
  PROVE  \/ UNCHANGED <<credits, ledger>>
         \/ \E a \in Analyses :
              /\ credits' = [credits EXCEPT ![Owner[a]] = @ + Net(a) - Net(a)']
              /\ \A b \in Analyses \ {a} : Net(b)' = Net(b)
<1> DEFINE Moved(a) == /\ credits' = [credits EXCEPT ![Owner[a]] = @ + Net(a) - Net(a)']
                      /\ \A b \in Analyses \ {a} : Net(b)' = Net(b)
<1>0. TypeOK /\ LockInv /\ RowInv /\ Owner \in [Analyses -> Users]
  BY OwnerAssumption DEF CreditInv
<1>1. \A a \in Analyses : /\ ledger[a] \in Ledger /\ ledger[a].charged \in Int
                         /\ ledger[a].refunded \in Int /\ credits[Owner[a]] \in Int
  BY <1>0 DEF TypeOK, Ledger
<1>2. ASSUME NEW a \in Analyses, NEW s \in {0, 1}, Refund(a, s) PROVE Moved(a)
  <2>1. /\ ledger'[a].charged = ledger[a].charged
        /\ ledger'[a].refunded = ledger[a].refunded + s
        /\ \A b \in Analyses \ {a} : ledger'[b] = ledger[b]
    BY <1>0, <1>1, <1>2 DEF Refund, TypeOK, Ledger
  <2>2. Net(a) - Net(a)' = s
    BY <1>1, <2>1 DEF Net
  <2>3. credits' = [credits EXCEPT ![Owner[a]] = credits[Owner[a]] + s]
    BY <1>2 DEF Refund
  <2>4. credits[Owner[a]] + Net(a) - Net(a)' = credits[Owner[a]] + s
    BY <1>1, <2>1 DEF Net
  <2> QED
    BY <2>1, <2>3, <2>4 DEF Net
<1>3. ASSUME NEW a \in Analyses, ChargeAndInsert(a) PROVE Moved(a)
  <2>1. Charged(a) \in {0, 1} /\ ledger[a].charged = 0
    BY <1>0, <1>3 DEF Charged, ChargeAndInsert, RowInv
  <2>2. /\ ledger'[a].charged = Charged(a)
        /\ ledger'[a].refunded = ledger[a].refunded
        /\ \A b \in Analyses \ {a} : ledger'[b] = ledger[b]
    BY <1>0, <1>1, <1>3 DEF ChargeAndInsert, TypeOK, Ledger
  <2>3. credits[Owner[a]] + Net(a) - Net(a)' = credits[Owner[a]] - Charged(a)
    BY <1>1, <2>1, <2>2 DEF Net
  <2> QED
    BY <1>3, <2>2, <2>3 DEF Net, ChargeAndInsert
<1>4. ASSUME NEW a \in Analyses, Delete(a) PROVE Moved(a)
  <2>1. \A b \in Analyses : Net(b)' = Net(b)
    BY <1>0, <1>1, <1>4 DEF Delete, TypeOK, Ledger, Net
  <2>2. credits' = credits /\ credits[Owner[a]] + Net(a) - Net(a)' = credits[Owner[a]]
    BY <1>1, <1>4, <2>1 DEF Delete, Net
  <2> QED
    BY <1>0, <2>1, <2>2 DEF TypeOK
<1>5. ASSUME NEW a \in Analyses, CompensateCommit(a) PROVE Moved(a)
  BY <1>0, <1>2, <1>5 DEF CompensateCommit, TypeOK, Handler
<1>6. ASSUME NEW w \in Workers, SavePartial(w) PROVE \E a \in Analyses : Moved(a)
  BY <1>0, <1>2, <1>6 DEF SavePartial, TypeOK, Worker, LockInv
<1>7. ASSUME NEW w \in Workers, FailCommit(w) PROVE \E a \in Analyses : Moved(a)
  BY <1>0, <1>2, <1>7 DEF FailCommit, TypeOK, Worker, LockInv
<1> HIDE DEF Moved
<1>8. Moves => \E a \in Analyses : Moved(a)
  BY <1>3, <1>4, <1>5, <1>6, <1>7 DEF Moves
<1> USE DEF Moved
<1> QED
  BY <1>8, OnlyMovesChangeCredits

---------------------------------------------------------------------------
(* While nothing that was taken up is dropped, no analysis is abandoned. *)

\* No API process dies between the commit and the answer, no statement fails
\* and no task is killed: what is left are publish errors, messages delivered
\* again, lost workers and soft limits.
NothingDropped == Faults \cap {"hard_limit", "db_error", "api_crash"} = {}

\* The inductive form of UnfinishedIsOwned: a worker owns its job only until it
\* has stored the report or marked the row failed.
OwnedInv ==
  \A a \in Analyses :
    rows[a].status \in {"pending", "processing"} =>
      \/ handler[a].pc \in {"committed", "compensating"}
      \/ queue[a] > 0
      \/ \E w \in Workers : /\ worker[w].job = a
                            /\ worker[w].pc \notin {"idle", "saved", "raised"}

LEMMA OwnedStep ==
  NothingDropped /\ CreditInv /\ OwnedInv /\ [Next]_vars => OwnedInv'
<1> SUFFICES ASSUME NothingDropped, CreditInv, OwnedInv, [Next]_vars PROVE OwnedInv'
  OBVIOUS
<1>0. TypeOK /\ JobInv /\ LockInv
  BY DEF CreditInv
<1> USE DEF TypeOK, JobInv, LockInv, OwnedInv, Row, Status, Handler, Worker, Exists
<1>1. ASSUME NEW a \in Analyses, Reject(a) PROVE OwnedInv'
  BY <1>1, <1>0 DEF Reject
<1>2. ASSUME NEW a \in Analyses, LoadUser(a) PROVE OwnedInv'
  BY <1>2, <1>0 DEF LoadUser
<1>3. ASSUME NEW a \in Analyses, ChargeAndInsert(a) PROVE OwnedInv'
  BY <1>3, <1>0 DEF ChargeAndInsert, Charged, Unlocked
<1>4. ASSUME NEW a \in Analyses, RefreshFails(a) PROVE OwnedInv'
  BY <1>4, <1>0 DEF RefreshFails
<1>5. ASSUME NEW a \in Analyses, EnqueueOk(a) PROVE OwnedInv'
  BY <1>5, <1>0 DEF EnqueueOk, Enqueue
<1>6. ASSUME NEW a \in Analyses, EnqueueTwice(a) PROVE OwnedInv'
  BY <1>6, <1>0 DEF EnqueueTwice, Enqueue
<1>7. ASSUME NEW a \in Analyses, EnqueueError(a) PROVE OwnedInv'
  BY <1>7, <1>0 DEF EnqueueError, Enqueue
<1>8. ASSUME NEW a \in Analyses, EnqueueAmbiguous(a) PROVE OwnedInv'
  BY <1>8, <1>0 DEF EnqueueAmbiguous, Enqueue
<1>9. ASSUME NEW a \in Analyses, CompensateSelect(a) PROVE OwnedInv'
  BY <1>9, <1>0 DEF CompensateSelect
<1>10. ASSUME NEW a \in Analyses, CompensateCommit(a) PROVE OwnedInv'
  BY <1>10, <1>0 DEF CompensateCommit, Failed
<1>11. ASSUME NEW a \in Analyses, CompensateMissing(a) PROVE OwnedInv'
  BY <1>11, <1>0 DEF CompensateMissing
<1>12. ASSUME NEW a \in Analyses, HandlerDies(a) PROVE OwnedInv'
  BY <1>12, <1>0 DEF HandlerDies, NothingDropped
<1>13. ASSUME NEW a \in Analyses, Delete(a) PROVE OwnedInv'
  BY <1>13, <1>0 DEF Delete, NoRow
<1>14. ASSUME NEW w \in Workers, Receive(w) PROVE OwnedInv'
  <2>1. PICK b \in Analyses : /\ queue[b] > 0
                              /\ queue' = [queue EXCEPT ![b] = @ - 1]
                              /\ worker' = [worker EXCEPT ![w].pc = "started", ![w].job = b]
    BY <1>14 DEF Receive
  <2>2. /\ worker'[w].job = b /\ worker'[w].pc = "started"
        /\ \A v \in Workers \ {w} : worker'[v] = worker[v]
        /\ \A a \in Analyses \ {b} : queue'[a] = queue[a]
    BY <1>0, <1>14, <2>1
  <2>3. worker[w].pc = "idle" /\ rows' = rows /\ handler' = handler
    BY <1>14 DEF Receive
  <2> QED
    BY <2>2, <2>3 DEF OwnedInv
<1>15. ASSUME NEW w \in Workers, MarkProcessing(w) PROVE OwnedInv'
  BY <1>15, <1>0 DEF MarkProcessing
<1>16. ASSUME NEW w \in Workers, Analyze(w) PROVE OwnedInv'
  <2>1. /\ worker'[w].job = worker[w].job /\ worker'[w].pc = "saving"
        /\ \A v \in Workers \ {w} : worker'[v] = worker[v]
        /\ rows' = rows /\ handler' = handler /\ queue' = queue
    BY <1>0, <1>16 DEF Analyze
  <2> QED
    BY <2>1 DEF OwnedInv
<1>17. ASSUME NEW w \in Workers, PipelineRaises(w) PROVE OwnedInv'
  BY <1>17, <1>0 DEF PipelineRaises
<1>18. ASSUME NEW w \in Workers, SaveWhole(w) PROVE OwnedInv'
  BY <1>18, <1>0 DEF SaveWhole
<1>19. ASSUME NEW w \in Workers, RefundSelect(w) PROVE OwnedInv'
  <2>1. /\ worker'[w].job = worker[w].job /\ worker'[w].pc = worker[w].pc
        /\ \A v \in Workers \ {w} : worker'[v] = worker[v]
        /\ rows' = rows /\ handler' = handler /\ queue' = queue
    BY <1>0, <1>19 DEF RefundSelect
  <2> QED
    BY <2>1 DEF OwnedInv
<1>20. ASSUME NEW w \in Workers, SavePartial(w) PROVE OwnedInv'
  BY <1>20, <1>0 DEF SavePartial, Partial
<1>21. ASSUME NEW w \in Workers, FailCommit(w) PROVE OwnedInv'
  BY <1>21, <1>0 DEF FailCommit, Failed, AfterFailed
<1>22. ASSUME NEW w \in Workers, FailMissing(w) PROVE OwnedInv'
  BY <1>22, <1>0 DEF FailMissing, AfterFailed
<1>23. ASSUME NEW w \in Workers, Ack(w) PROVE OwnedInv'
  BY <1>23, <1>0 DEF Ack, Idle
<1>24. ASSUME NEW w \in Workers, SoftLimit(w) PROVE OwnedInv'
  BY <1>24, <1>0 DEF SoftLimit
<1>25. ASSUME NEW w \in Workers, HardLimit(w) PROVE OwnedInv'
  BY <1>25, <1>0 DEF HardLimit, NothingDropped
<1>26. ASSUME NEW w \in Workers, DbError(w) PROVE OwnedInv'
  BY <1>26, <1>0 DEF DbError, NothingDropped
<1>27. ASSUME NEW w \in Workers, WorkerLost(w) PROVE OwnedInv'
  BY <1>27, <1>0 DEF WorkerLost, Idle
<1>28. CASE UNCHANGED vars
  BY <1>28, <1>0 DEF vars
<1> QED
  BY <1>1, <1>2, <1>3, <1>4, <1>5, <1>6, <1>7, <1>8, <1>9, <1>10, <1>11, <1>12, <1>13, <1>14, <1>15, <1>16, <1>17, <1>18, <1>19, <1>20, <1>21, <1>22, <1>23, <1>24, <1>25, <1>26, <1>27, <1>28
     DEF Next, Answer, Work, Interrupt

\* As long as nothing is dropped, an unfinished analysis is in the hands of its
\* handler, of the broker or of a worker, through lost workers, soft limits,
\* publishes that fail after the fact and duplicates.
THEOREM UnfinishedOwned == NothingDropped => (Spec => []UnfinishedIsOwned)
<1> SUFFICES ASSUME NothingDropped PROVE Spec => []UnfinishedIsOwned
  OBVIOUS
<1>1. Init => OwnedInv
  BY DEF Init, NoRow, OwnedInv
<1>2. OwnedInv => UnfinishedIsOwned
  BY DEF OwnedInv, UnfinishedIsOwned
<1>3. QED
  BY <1>1, <1>2, CreditInit, CreditStep, OwnedStep, PTL DEF Spec

---------------------------------------------------------------------------
(* While every message is delivered once, a finished analysis stands. *)

\* Nothing is published twice, no worker is lost and no soft limit fires.
DeliversOnce ==
  Faults \cap {"enqueue_ambiguous", "enqueue_twice", "worker_lost", "soft_limit"} = {}

\* One token per analysis: before its request is answered, its message, or the
\* worker that took it.  The status follows the token.
OnceInv ==
  /\ \A a \in Analyses :
       /\ queue[a] <= 1
       /\ handler[a].pc # "done" \/ queue[a] = 1 =>
            /\ rows[a].status \in {"absent", "pending"}
            /\ \A w \in Workers : worker[w].job # a
       /\ handler[a].pc # "done" => queue[a] = 0
  /\ \A w \in Workers :
       /\ ~worker[w].soft /\ worker[w].pc # "timing_out"
       /\ \A v \in Workers \ {w} : worker[w].pc # "idle" => worker[v].job # worker[w].job
       /\ worker[w].pc = "idle" => worker[w].job = NoJob
       /\ worker[w].pc = "started" => rows[worker[w].job].status \in {"absent", "pending"}
       /\ worker[w].pc \in {"running", "saving", "failing"} =>
            rows[worker[w].job].status \in {"absent", "processing"}

\* What is shown in full, or may still be, is paid for; only a completed row
\* has a full report.
PaidInv ==
  \A a \in Analyses :
    /\ rows[a].status \in {"pending", "processing"} /\ rows[a].unlocked =>
         rows[a].spent = 1 \/ handler[a].premium
    /\ rows[a].result = "full" => rows[a].status = "completed"
    /\ ShownInFull(a) => rows[a].spent = 1 \/ handler[a].premium

LEMMA OnceStep ==
  DeliversOnce /\ CreditInv /\ OnceInv /\ [Next]_vars => OnceInv'
<1> SUFFICES ASSUME DeliversOnce, CreditInv, OnceInv, [Next]_vars PROVE OnceInv'
  OBVIOUS
<1>0. TypeOK /\ JobInv /\ LockInv /\ RowInv
  BY DEF CreditInv
<1> USE NoJobAssumption DEF TypeOK, JobInv, LockInv, RowInv, OnceInv, Row, Status, Handler, Worker, Exists
<1>1. ASSUME NEW a \in Analyses, Reject(a) PROVE OnceInv'
  BY <1>1, <1>0 DEF Reject
<1>2. ASSUME NEW a \in Analyses, LoadUser(a) PROVE OnceInv'
  BY <1>2, <1>0 DEF LoadUser
<1>3. ASSUME NEW a \in Analyses, ChargeAndInsert(a) PROVE OnceInv'
  BY <1>3, <1>0 DEF ChargeAndInsert, Charged, Unlocked
<1>4. ASSUME NEW a \in Analyses, RefreshFails(a) PROVE OnceInv'
  BY <1>4, <1>0 DEF RefreshFails
<1>5. ASSUME NEW a \in Analyses, EnqueueOk(a) PROVE OnceInv'
  BY <1>5, <1>0 DEF EnqueueOk, Enqueue
<1>6. ASSUME NEW a \in Analyses, EnqueueTwice(a) PROVE OnceInv'
  BY <1>6, <1>0 DEF EnqueueTwice, DeliversOnce
<1>7. ASSUME NEW a \in Analyses, EnqueueError(a) PROVE OnceInv'
  BY <1>7, <1>0 DEF EnqueueError, Enqueue
<1>8. ASSUME NEW a \in Analyses, EnqueueAmbiguous(a) PROVE OnceInv'
  BY <1>8, <1>0 DEF EnqueueAmbiguous, DeliversOnce
<1>9. ASSUME NEW a \in Analyses, CompensateSelect(a) PROVE OnceInv'
  BY <1>9, <1>0 DEF CompensateSelect
<1>10. ASSUME NEW a \in Analyses, CompensateCommit(a) PROVE OnceInv'
  BY <1>10, <1>0 DEF CompensateCommit, Failed
<1>11. ASSUME NEW a \in Analyses, CompensateMissing(a) PROVE OnceInv'
  BY <1>11, <1>0 DEF CompensateMissing
<1>12. ASSUME NEW a \in Analyses, HandlerDies(a) PROVE OnceInv'
  BY <1>12, <1>0 DEF HandlerDies
<1>13. ASSUME NEW a \in Analyses, Delete(a) PROVE OnceInv'
  BY <1>13, <1>0 DEF Delete, NoRow
<1>14. ASSUME NEW w \in Workers, Receive(w) PROVE OnceInv'
  BY <1>14, <1>0 DEF Receive
<1>15. ASSUME NEW w \in Workers, MarkProcessing(w) PROVE OnceInv'
  BY <1>15, <1>0 DEF MarkProcessing
<1>16. ASSUME NEW w \in Workers, Analyze(w) PROVE OnceInv'
  BY <1>16, <1>0 DEF Analyze
<1>17. ASSUME NEW w \in Workers, PipelineRaises(w) PROVE OnceInv'
  BY <1>17, <1>0 DEF PipelineRaises
<1>18. ASSUME NEW w \in Workers, SaveWhole(w) PROVE OnceInv'
  BY <1>18, <1>0 DEF SaveWhole
<1>19. ASSUME NEW w \in Workers, RefundSelect(w) PROVE OnceInv'
  BY <1>19, <1>0 DEF RefundSelect
<1>20. ASSUME NEW w \in Workers, SavePartial(w) PROVE OnceInv'
  BY <1>20, <1>0 DEF SavePartial, Partial
<1>21. ASSUME NEW w \in Workers, FailCommit(w) PROVE OnceInv'
  BY <1>21, <1>0 DEF FailCommit, Failed, AfterFailed
<1>22. ASSUME NEW w \in Workers, FailMissing(w) PROVE OnceInv'
  BY <1>22, <1>0 DEF FailMissing, AfterFailed
<1>23. ASSUME NEW w \in Workers, Ack(w) PROVE OnceInv'
  BY <1>23, <1>0 DEF Ack, Idle
<1>24. ASSUME NEW w \in Workers, SoftLimit(w) PROVE OnceInv'
  BY <1>24, <1>0 DEF SoftLimit, DeliversOnce
<1>25. ASSUME NEW w \in Workers, HardLimit(w) PROVE OnceInv'
  BY <1>25, <1>0 DEF HardLimit, Idle
<1>26. ASSUME NEW w \in Workers, DbError(w) PROVE OnceInv'
  BY <1>26, <1>0 DEF DbError
<1>27. ASSUME NEW w \in Workers, WorkerLost(w) PROVE OnceInv'
  BY <1>27, <1>0 DEF WorkerLost, DeliversOnce
<1>28. CASE UNCHANGED vars
  BY <1>28, <1>0 DEF vars
<1> QED
  BY <1>1, <1>2, <1>3, <1>4, <1>5, <1>6, <1>7, <1>8, <1>9, <1>10, <1>11, <1>12, <1>13, <1>14, <1>15, <1>16, <1>17, <1>18, <1>19, <1>20, <1>21, <1>22, <1>23, <1>24, <1>25, <1>26, <1>27, <1>28
     DEF Next, Answer, Work, Interrupt

LEMMA PaidStep ==
  DeliversOnce /\ CreditInv /\ OnceInv /\ PaidInv /\ [Next]_vars => PaidInv'
<1> SUFFICES ASSUME DeliversOnce, CreditInv, OnceInv, PaidInv, [Next]_vars PROVE PaidInv'
  OBVIOUS
<1>0. TypeOK /\ JobInv /\ LockInv /\ RowInv
  BY DEF CreditInv
<1> USE DEF TypeOK, JobInv, LockInv, RowInv, OnceInv, PaidInv, ShownInFull, Row, Status, Result, Handler, Worker, Exists
<1>1. ASSUME NEW a \in Analyses, Reject(a) PROVE PaidInv'
  BY <1>1, <1>0 DEF Reject
<1>2. ASSUME NEW a \in Analyses, LoadUser(a) PROVE PaidInv'
  BY <1>2, <1>0 DEF LoadUser
<1>3. ASSUME NEW a \in Analyses, ChargeAndInsert(a) PROVE PaidInv'
  BY <1>3, <1>0 DEF ChargeAndInsert, Charged, Unlocked
<1>4. ASSUME NEW a \in Analyses, RefreshFails(a) PROVE PaidInv'
  BY <1>4, <1>0 DEF RefreshFails
<1>5. ASSUME NEW a \in Analyses, EnqueueOk(a) PROVE PaidInv'
  BY <1>5, <1>0 DEF EnqueueOk, Enqueue
<1>6. ASSUME NEW a \in Analyses, EnqueueTwice(a) PROVE PaidInv'
  BY <1>6, <1>0 DEF EnqueueTwice, DeliversOnce
<1>7. ASSUME NEW a \in Analyses, EnqueueError(a) PROVE PaidInv'
  BY <1>7, <1>0 DEF EnqueueError, Enqueue
<1>8. ASSUME NEW a \in Analyses, EnqueueAmbiguous(a) PROVE PaidInv'
  BY <1>8, <1>0 DEF EnqueueAmbiguous, DeliversOnce
<1>9. ASSUME NEW a \in Analyses, CompensateSelect(a) PROVE PaidInv'
  BY <1>9, <1>0 DEF CompensateSelect
<1>10. ASSUME NEW a \in Analyses, CompensateCommit(a) PROVE PaidInv'
  BY <1>10, <1>0 DEF CompensateCommit, Failed
<1>11. ASSUME NEW a \in Analyses, CompensateMissing(a) PROVE PaidInv'
  BY <1>11, <1>0 DEF CompensateMissing
<1>12. ASSUME NEW a \in Analyses, HandlerDies(a) PROVE PaidInv'
  BY <1>12, <1>0 DEF HandlerDies
<1>13. ASSUME NEW a \in Analyses, Delete(a) PROVE PaidInv'
  BY <1>13, <1>0 DEF Delete, NoRow
<1>14. ASSUME NEW w \in Workers, Receive(w) PROVE PaidInv'
  BY <1>14, <1>0 DEF Receive
<1>15. ASSUME NEW w \in Workers, MarkProcessing(w) PROVE PaidInv'
  BY <1>15, <1>0 DEF MarkProcessing
<1>16. ASSUME NEW w \in Workers, Analyze(w) PROVE PaidInv'
  BY <1>16, <1>0 DEF Analyze
<1>17. ASSUME NEW w \in Workers, PipelineRaises(w) PROVE PaidInv'
  BY <1>17, <1>0 DEF PipelineRaises
<1>18. ASSUME NEW w \in Workers, SaveWhole(w) PROVE PaidInv'
  BY <1>18, <1>0 DEF SaveWhole
<1>19. ASSUME NEW w \in Workers, RefundSelect(w) PROVE PaidInv'
  BY <1>19, <1>0 DEF RefundSelect
<1>20. ASSUME NEW w \in Workers, SavePartial(w) PROVE PaidInv'
  BY <1>20, <1>0 DEF SavePartial, Partial
<1>21. ASSUME NEW w \in Workers, FailCommit(w) PROVE PaidInv'
  BY <1>21, <1>0 DEF FailCommit, Failed, AfterFailed
<1>22. ASSUME NEW w \in Workers, FailMissing(w) PROVE PaidInv'
  BY <1>22, <1>0 DEF FailMissing, AfterFailed
<1>23. ASSUME NEW w \in Workers, Ack(w) PROVE PaidInv'
  BY <1>23, <1>0 DEF Ack, Idle
<1>24. ASSUME NEW w \in Workers, SoftLimit(w) PROVE PaidInv'
  BY <1>24, <1>0 DEF SoftLimit, DeliversOnce
<1>25. ASSUME NEW w \in Workers, HardLimit(w) PROVE PaidInv'
  BY <1>25, <1>0 DEF HardLimit, Idle
<1>26. ASSUME NEW w \in Workers, DbError(w) PROVE PaidInv'
  BY <1>26, <1>0 DEF DbError
<1>27. ASSUME NEW w \in Workers, WorkerLost(w) PROVE PaidInv'
  BY <1>27, <1>0 DEF WorkerLost, DeliversOnce
<1>28. CASE UNCHANGED vars
  BY <1>28, <1>0 DEF vars
<1> QED
  BY <1>1, <1>2, <1>3, <1>4, <1>5, <1>6, <1>7, <1>8, <1>9, <1>10, <1>11, <1>12, <1>13, <1>14, <1>15, <1>16, <1>17, <1>18, <1>19, <1>20, <1>21, <1>22, <1>23, <1>24, <1>25, <1>26, <1>27, <1>28
     DEF Next, Answer, Work, Interrupt

LEMMA OnceInit == Init => OnceInv /\ PaidInv
BY NoJobAssumption DEF Init, NoRow, Idle, OnceInv, PaidInv, ShownInFull

\* "There is no free full report" (README.md:38), for every number of uploads
\* and workers, while every message is delivered once.
THEOREM NoReportIsFree == DeliversOnce => (Spec => []NoFreeFullReport)
<1> SUFFICES ASSUME DeliversOnce PROVE Spec => []NoFreeFullReport
  OBVIOUS
<1>1. PaidInv => NoFreeFullReport
  BY DEF PaidInv, NoFreeFullReport
<1>2. QED
  BY <1>1, CreditInit, CreditStep, OnceInit, OnceStep, PaidStep, PTL DEF Spec

\* Under the same condition a step moves a status forward only, and the credit
\* of a report that is shown in full is not handed back.
Forward ==
  \A a \in Analyses :
    Exists(a)' => /\ Rank[rows[a].status] <= Rank[rows'[a].status]
                  /\ rows[a].status \in {"completed", "failed"} =>
                       rows'[a].status = rows[a].status
StaysPaid ==
  \A a \in Analyses : ShownInFull(a) => ledger'[a].refunded = ledger[a].refunded

Stands == Forward /\ StaysPaid

LEMMA RankType ==
  \A s \in Status : Rank[s] = IF s = "absent" THEN 0 ELSE IF s = "pending" THEN 1
                             ELSE IF s = "processing" THEN 2 ELSE 3
BY DEF Rank, Status

LEMMA StandsStill ==
  ASSUME TypeOK, rows' = rows, ledger' = ledger
  PROVE  Stands
<1>1. \A s \in Status : Rank[s] <= Rank[s]
  BY RankType
<1>2. QED
  BY <1>1 DEF TypeOK, Row, Stands, Forward, StaysPaid

\* A worker's failure or partial report only touches an analysis in progress.
LEMMA StandsOne ==
  ASSUME TypeOK, NEW a \in Analyses, rows[a].status = "processing",
         rows[a].result # "full", rows'[a].status \in {"completed", "failed"},
         \A b \in Analyses \ {a} : rows'[b] = rows[b] /\ ledger'[b] = ledger[b]
  PROVE  Stands
<1>1. \A s \in Status : Rank[s] <= Rank[s]
  BY RankType
<1>2. \A b \in Analyses : rows[b].status \in Status
  BY DEF TypeOK, Row
<1>3. Rank["processing"] <= Rank["completed"] /\ Rank["processing"] <= Rank["failed"]
  BY RankType DEF Status
<1>4. Forward
  BY <1>1, <1>2, <1>3 DEF Forward
<1>5. StaysPaid
  BY DEF StaysPaid, ShownInFull
<1>6. QED
  BY <1>4, <1>5 DEF Stands

LEMMA DeliveredStep ==
  ASSUME CreditInv, OnceInv, PaidInv, [Next]_vars
  PROVE  Stands
<1>0. TypeOK /\ JobInv /\ LockInv /\ RowInv
  BY DEF CreditInv
<1> USE DEF Stands, Forward, StaysPaid, TypeOK, JobInv, LockInv, RowInv, OnceInv,
            PaidInv, ShownInFull, Row, Status, Result, Handler, Worker, Ledger, Exists
<1>1. ASSUME NEW a \in Analyses, ChargeAndInsert(a) PROVE Stands
  BY <1>0, RankType, <1>1 DEF ChargeAndInsert
<1>2. ASSUME NEW a \in Analyses, CompensateCommit(a) PROVE Stands
  BY <1>0, RankType, <1>2 DEF CompensateCommit, Refund, Failed
<1>3. ASSUME NEW a \in Analyses, Delete(a) PROVE Stands
  BY <1>0, RankType, <1>3 DEF Delete, NoRow
<1>4. ASSUME NEW w \in Workers, MarkProcessing(w) PROVE Stands
  BY <1>0, RankType, <1>4 DEF MarkProcessing
<1>5. ASSUME NEW w \in Workers, SaveWhole(w) PROVE Stands
  BY <1>0, RankType, <1>5 DEF SaveWhole
<1>6. ASSUME NEW w \in Workers, SavePartial(w) PROVE Stands
  <2> DEFINE a == worker[w].job
  <2>1. /\ a \in Analyses /\ rows[a] \in Row /\ rows[a].status = "processing"
        /\ rows[a].result # "full"
    BY <1>0, <1>6 DEF SavePartial
  <2>2. rows'[a].status = "completed"
    BY <1>0, <1>6, <2>1 DEF SavePartial, Partial
  <2>3. \A b \in Analyses \ {a} : rows'[b] = rows[b] /\ ledger'[b] = ledger[b]
    BY <1>0, <1>6, <2>1 DEF SavePartial, Refund
  <2> HIDE DEF a
  <2> QED
    <3> HIDE DEF Stands, TypeOK
    <3> QED
      BY <1>0, <2>1, <2>2, <2>3, StandsOne
<1>7. ASSUME NEW w \in Workers, FailCommit(w) PROVE Stands
  <2> DEFINE a == worker[w].job
  <2>1. /\ a \in Analyses /\ rows[a] \in Row /\ rows[a].status = "processing"
        /\ rows[a].result # "full"
    BY <1>0, <1>7 DEF FailCommit
  <2>2. rows'[a].status = "failed"
    BY <1>0, <1>7, <2>1 DEF FailCommit, Failed
  <2>3. \A b \in Analyses \ {a} : rows'[b] = rows[b] /\ ledger'[b] = ledger[b]
    BY <1>0, <1>7, <2>1 DEF FailCommit, Refund
  <2> HIDE DEF a
  <2> QED
    <3> HIDE DEF Stands, TypeOK
    <3> QED
      BY <1>0, <2>1, <2>2, <2>3, StandsOne
<1>8. CASE rows' = rows /\ ledger' = ledger
  BY StandsStill, <1>0, <1>8
<1>9. Writes \/ (rows' = rows /\ ledger' = ledger)
  BY OnlyWritesChangeRows, OnlyMovesChangeCredits DEF Writes, Moves
<1> QED
  BY <1>1, <1>2, <1>3, <1>4, <1>5, <1>6, <1>7, <1>8, <1>9 DEF Writes

\* A finished analysis never goes back or changes its outcome, while every
\* message is delivered once.
THEOREM StatusesMoveForward == DeliversOnce => (Spec => StatusForward)
<1> SUFFICES ASSUME DeliversOnce PROVE Spec => StatusForward
  OBVIOUS
<1>1. CreditInv /\ OnceInv /\ PaidInv /\ [Next]_vars => [Forward]_vars
  BY DeliveredStep DEF Stands
<1>2. QED
  BY <1>1, CreditInit, CreditStep, OnceInit, OnceStep, PaidStep, PTL
     DEF Spec, StatusForward, Forward

\* A report that was shown in full keeps its credit until it is deleted, while
\* every message is delivered once.
THEOREM DeliveredReportsStayPaid == DeliversOnce => (Spec => DeliveredStaysPaid)
<1> SUFFICES ASSUME DeliversOnce PROVE Spec => DeliveredStaysPaid
  OBVIOUS
<1>1. CreditInv /\ OnceInv /\ PaidInv /\ [Next]_vars =>
        [StaysPaid]_vars
  BY DeliveredStep DEF Stands
<1>2. QED
  BY <1>1, CreditInit, CreditStep, OnceInit, OnceStep, PaidStep, PTL
     DEF Spec, DeliveredStaysPaid, StaysPaid

---------------------------------------------------------------------------
(* Steps of others, which change no more than the balances. *)

LEMMA CreditFrame ==
  ASSUME CreditInv, credits' \in [Users -> Nat],
         UNCHANGED <<rows, handler, queue, worker, losses, ledger>>
  PROVE  CreditInv'
<1>1. TypeOK' /\ JobInv'
  BY DEF CreditInv, TypeOK, JobInv
<1>2. RowLockExclusive' /\ LockInv'
  BY DEF CreditInv, RowLockExclusive, LockInv, Holds, Exists
<1>3. RowInv' /\ CreditAccounted'
  BY DEF CreditInv, RowInv, CreditAccounted, Exists
<1>4. QED
  BY <1>1, <1>2, <1>3 DEF CreditInv

LEMMA OnceFrame ==
  ASSUME OnceInv, PaidInv, UNCHANGED <<rows, handler, queue, worker>>
  PROVE  OnceInv' /\ PaidInv'
BY DEF OnceInv, PaidInv, ShownInFull
===========================================================================
