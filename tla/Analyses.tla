----------------------------- MODULE Analyses -----------------------------
(***************************************************************************)
(* The life of a signed-in upload: the API handler charges a credit and    *)
(* inserts the analysis row, publishes a Celery message, and compensates   *)
(* when publishing fails; the worker runs the pipeline on every delivery   *)
(* of the message and stores the report, or fails the analysis and gives   *)
(* the credit back.  Rows and balances live in PostgreSQL; a step that     *)
(* writes them is one committed transaction, except that a refund is two   *)
(* steps (read under the row lock, then write and commit) so that the lock *)
(* is part of the model.  What the environment may do is chosen by Faults. *)
(***************************************************************************)
EXTENDS Integers

CONSTANTS Users,           \* accounts
          Analyses,        \* one per upload request; also the id of its row
          Owner,           \* Owner[a]: the user whose token request a carries
          Workers,         \* worker processes (the compose files start one)
          NoJob,           \* the job of an idle worker
          InitialCredits,  \* User.credits before the first upload
          Faults,          \* what may go wrong, a subset of AllFaults
          MaxLosses        \* bound on the worker losses of a behaviour

AllFaults ==
  { "enqueue_error",      \* apply_async raises and nothing was published
    "enqueue_ambiguous",  \* apply_async raises after the broker took the message
    "enqueue_twice",      \* the publish is retried after the broker took it
    "worker_lost",        \* the worker process dies; the message is requeued
    "soft_limit",         \* SoftTimeLimitExceeded is raised inside the task
    "hard_limit",         \* the task is killed at the hard limit, and acked
    "db_error",           \* a statement or a commit raises
    "api_crash" }         \* the API process dies inside upload_chat

ASSUME OwnerAssumption  == Owner \in [Analyses -> Users]
ASSUME NoJobAssumption  == NoJob \notin Analyses
ASSUME CreditAssumption == InitialCredits \in [Users -> Nat]
ASSUME BoundAssumption  == MaxLosses \in Nat
ASSUME FaultAssumption  == Faults \subseteq AllFaults

VARIABLES credits,   \* credits[u]: User.credits
          rows,      \* rows[a]: the analyses row of upload a
          handler,   \* handler[a]: the upload_chat call of request a
          queue,     \* queue[a]: messages for a waiting in the broker
          worker,    \* worker[w]: the task worker w executes
          losses,    \* worker losses so far
          ledger     \* history: what became of the credit of upload a

vars == <<credits, rows, handler, queue, worker, losses, ledger>>

Status == {"absent", "pending", "processing", "completed", "failed"}
Result == {"none", "preview", "partial", "full"}
Row == [status : Status, result : Result, unlocked : BOOLEAN, spent : {0, 1}]

Handler == [pc : {"new", "loaded", "committed", "compensating", "done"},
            premium : BOOLEAN,            \* is_premium as db.get returned it
            tier : {"preview", "full"},   \* the tier argument of the message
            txn : BOOLEAN,                \* holds the FOR UPDATE lock on its row
            seen : {0, 1}]                \* the credits_spent it read

Worker == [pc : {"idle", "started", "running", "saving", "saved",
                 "failing", "timing_out", "raised"},
           job : Analyses \cup {NoJob},
           whole : BOOLEAN,               \* ~_is_incomplete(results, tier)
           soft : BOOLEAN,                \* SoftTimeLimitExceeded was raised
           txn : BOOLEAN,                 \* holds the row lock of its job
           seen : {0, 1}]                 \* the credits_spent it read

Ledger == [charged : {0, 1}, refunded : Nat, kept : {0, 1}]

TypeOK == /\ credits \in [Users -> Nat]
          /\ rows \in [Analyses -> Row]
          /\ handler \in [Analyses -> Handler]
          /\ queue \in [Analyses -> Nat]
          /\ worker \in [Workers -> Worker]
          /\ losses \in 0..MaxLosses
          /\ ledger \in [Analyses -> Ledger]

NoRow == [status |-> "absent", result |-> "none", unlocked |-> FALSE, spent |-> 0]
Idle  == [pc |-> "idle", job |-> NoJob, whole |-> TRUE, soft |-> FALSE,
          txn |-> FALSE, seen |-> 0]

Init == /\ credits = InitialCredits
        /\ rows = [a \in Analyses |-> NoRow]
        /\ handler = [a \in Analyses |-> [pc |-> "new", premium |-> FALSE,
                         tier |-> "preview", txn |-> FALSE, seen |-> 0]]
        /\ queue = [a \in Analyses |-> 0]
        /\ worker = [w \in Workers |-> Idle]
        /\ losses = 0
        /\ ledger = [a \in Analyses |-> [charged |-> 0, refunded |-> 0, kept |-> 0]]

Exists(a) == rows[a].status # "absent"

\* A transaction of worker w holds the row of a.
Holds(w, a) == worker[w].txn /\ worker[w].job = a

\* Mutant: nothing is read FOR UPDATE.
RowFreeAlways(a) == TRUE

\* Nobody holds the row of a: a writer or a FOR UPDATE read may go on.
RowFree(a) == ~handler[a].txn /\ \A w \in Workers : ~Holds(w, a)

\* The writes of a refund that read seen under the lock; the caller commits.
Refund(a, seen) ==
  /\ credits' = [credits EXCEPT ![Owner[a]] = @ + seen]
  /\ ledger' = [ledger EXCEPT ![a].refunded = @ + seen]

\* Mutants: the refund does not reset credits_spent; the partial report is
\* not locked; it is locked but its credit stays spent.
FailedUnreset(r) == [r EXCEPT !.status = "failed"]
PartialUnlocked(r) == [r EXCEPT !.status = "completed", !.result = "partial", !.spent = 0]
PartialUnrefunded(r) == [r EXCEPT !.status = "completed", !.result = "partial",
                                  !.unlocked = FALSE]

\* A failed row is refunded but keeps its unlocked flag; the row of an
\* incomplete report is refunded and locked.
Failed(r) == [r EXCEPT !.status = "failed", !.spent = 0]
Partial(r) == [r EXCEPT !.status = "completed", !.result = "partial",
                        !.spent = 0, !.unlocked = FALSE]

---------------------------------------------------------------------------
(* The API process: upload_chat *)

\* A bad date range, type or size ends the request before the database.
Reject(a) ==
  /\ handler[a].pc = "new"
  /\ handler' = [handler EXCEPT ![a].pc = "done"]
  /\ UNCHANGED <<credits, rows, queue, worker, losses, ledger>>

\* db.get(User): is_premium is read here and used in the next step.  Only the
\* admin page changes the flag, so either value may be read.
LoadUser(a) ==
  /\ handler[a].pc = "new"
  /\ \E p \in BOOLEAN :
       handler' = [handler EXCEPT ![a].pc = "loaded", ![a].premium = p]
  /\ UNCHANGED <<credits, rows, queue, worker, losses, ledger>>

\* Mutant: the UPDATE does not ask for credits > 0.
ChargedUnchecked(a) == IF ~handler[a].premium THEN 1 ELSE 0

\* spend_credit takes one credit, if the user is not premium and has one.
Charged(a) == IF ~handler[a].premium /\ credits[Owner[a]] > 0 THEN 1 ELSE 0

\* Mutant: an upload without a charge is unlocked too.
UnlockedAlways(a) == handler[a].premium \/ Charged(a) >= 0

\* unlocked, and with it the full tier: paid for, or premium.
Unlocked(a) == handler[a].premium \/ Charged(a) = 1

\* spend_credit, the insert and the commit: the conditional UPDATE holds the
\* user's row until the commit.
ChargeAndInsert(a) ==
  /\ handler[a].pc = "loaded"
  /\ credits' = [credits EXCEPT ![Owner[a]] = @ - Charged(a)]
  /\ rows' = [rows EXCEPT ![a] = [status |-> "pending", result |-> "none",
                                  unlocked |-> Unlocked(a), spent |-> Charged(a)]]
  /\ ledger' = [ledger EXCEPT ![a].charged = Charged(a)]
  /\ handler' = [handler EXCEPT ![a].pc = "committed",
                    ![a].tier = IF Unlocked(a) THEN "full" ELSE "preview"]
  /\ UNCHANGED <<queue, worker, losses>>

\* db.refresh raises when the row was deleted meanwhile: 500, nothing queued.
RefreshFails(a) ==
  /\ handler[a].pc = "committed"
  /\ ~Exists(a)
  /\ handler' = [handler EXCEPT ![a].pc = "done"]
  /\ UNCHANGED <<credits, rows, queue, worker, losses, ledger>>

\* _enqueue leaves copies messages behind and the handler at pc.
Enqueue(a, copies, pc) ==
  /\ handler[a].pc = "committed"
  /\ Exists(a)
  /\ queue' = [queue EXCEPT ![a] = @ + copies]
  /\ handler' = [handler EXCEPT ![a].pc = pc]
  /\ UNCHANGED <<credits, rows, worker, losses, ledger>>

EnqueueOk(a) == Enqueue(a, 1, "done")
EnqueueTwice(a) == "enqueue_twice" \in Faults /\ Enqueue(a, 2, "done")
\* Mutants: the error path assumes nothing was queued when something was; it
\* answers without compensating.
EnqueueErrorQueued(a) == "enqueue_error" \in Faults /\ Enqueue(a, 1, "compensating")
EnqueueErrorIgnored(a) == "enqueue_error" \in Faults /\ Enqueue(a, 0, "done")

EnqueueError(a) == "enqueue_error" \in Faults /\ Enqueue(a, 0, "compensating")
EnqueueAmbiguous(a) == "enqueue_ambiguous" \in Faults /\ Enqueue(a, 1, "compensating")

\* refund_analysis_credit_async: SELECT ... FOR UPDATE.
CompensateSelect(a) ==
  /\ handler[a].pc = "compensating"
  /\ ~handler[a].txn
  /\ Exists(a)
  /\ RowFree(a)
  /\ handler' = [handler EXCEPT ![a].txn = TRUE, ![a].seen = rows[a].spent]
  /\ UNCHANGED <<credits, rows, queue, worker, losses, ledger>>

\* The refund, status = failed and the commit; the answer is a 503.
CompensateCommit(a) ==
  /\ handler[a].pc = "compensating"
  /\ handler[a].txn
  /\ Refund(a, handler[a].seen)
  /\ rows' = [rows EXCEPT ![a] = Failed(@)]
  /\ handler' = [handler EXCEPT ![a].pc = "done", ![a].txn = FALSE, ![a].seen = 0]
  /\ UNCHANGED <<queue, worker, losses>>

\* No row to refund; the flush of status = failed then matches no row: 500.
CompensateMissing(a) ==
  /\ handler[a].pc = "compensating"
  /\ ~Exists(a)
  /\ handler' = [handler EXCEPT ![a].pc = "done"]
  /\ UNCHANGED <<credits, rows, queue, worker, losses, ledger>>

\* The process dies, or the charge, the refresh or the compensation raises:
\* the open transaction rolls back and nothing resumes the request.
HandlerDies(a) ==
  /\ Faults \cap {"api_crash", "db_error"} # {}
  /\ handler[a].pc \in {"loaded", "committed", "compensating"}
  /\ handler' = [handler EXCEPT ![a].pc = "done", ![a].txn = FALSE, ![a].seen = 0]
  /\ UNCHANGED <<credits, rows, queue, worker, losses, ledger>>

\* delete_analysis, or the admin page: the row goes, and with it its credit.
Delete(a) ==
  /\ Exists(a)
  /\ RowFree(a)
  /\ rows' = [rows EXCEPT ![a] = NoRow]
  /\ ledger' = [ledger EXCEPT ![a].kept = rows[a].spent]
  /\ UNCHANGED <<credits, handler, queue, worker, losses>>

---------------------------------------------------------------------------
(* The Celery worker: process_chat_upload and run_pipeline *)

Receive(w) ==
  /\ worker[w].pc = "idle"
  /\ \E a \in Analyses :
       /\ queue[a] > 0
       /\ queue' = [queue EXCEPT ![a] = @ - 1]
       /\ worker' = [worker EXCEPT ![w].pc = "started", ![w].job = a]
  /\ UNCHANGED <<credits, rows, handler, losses, ledger>>

\* _mark_processing: whatever the status was; a missing row is passed over.
MarkProcessing(w) ==
  LET a == worker[w].job
  IN /\ worker[w].pc = "started"
     /\ RowFree(a)
     /\ rows' = IF Exists(a) THEN [rows EXCEPT ![a].status = "processing"] ELSE rows
     /\ worker' = [worker EXCEPT ![w].pc = "running"]
     /\ UNCHANGED <<credits, handler, queue, losses, ledger>>

\* The analyzers end.  Only a full run has analyzers that report an error.
Analyze(w) ==
  /\ worker[w].pc = "running"
  /\ \E whole \in BOOLEAN :
       /\ whole \/ handler[worker[w].job].tier = "full"
       /\ worker' = [worker EXCEPT ![w].pc = "saving", ![w].whole = whole]
  /\ UNCHANGED <<credits, rows, handler, queue, losses, ledger>>

\* Mutant: an exception ends the task without _mark_failed.
PipelineRaisesUnmarked(w) ==
  /\ \/ worker[w].pc = "running"
     \/ worker[w].pc = "saving" /\ ~worker[w].txn /\ ~Exists(worker[w].job)
  /\ worker' = [worker EXCEPT ![w].pc = "raised"]
  /\ UNCHANGED <<credits, rows, handler, queue, losses, ledger>>

\* Parsing, the date filter or an analyzer raises; or the row to save to is
\* gone (ValueError in _save_result): on to _mark_failed.
PipelineRaises(w) ==
  /\ \/ worker[w].pc = "running"
     \/ worker[w].pc = "saving" /\ ~worker[w].txn /\ ~Exists(worker[w].job)
  /\ worker' = [worker EXCEPT ![w].pc = "failing"]
  /\ UNCHANGED <<credits, rows, handler, queue, losses, ledger>>

\* _save_result of a complete report: one UPDATE, and the commit.
SaveWhole(w) ==
  LET a == worker[w].job
      result == IF handler[a].tier = "full" THEN "full" ELSE "preview"
  IN /\ worker[w].pc = "saving"
     /\ worker[w].whole
     /\ Exists(a)
     /\ RowFree(a)
     /\ rows' = [rows EXCEPT ![a].status = "completed", ![a].result = result]
     /\ worker' = [worker EXCEPT ![w].pc = "saved"]
     /\ UNCHANGED <<credits, handler, queue, losses, ledger>>

\* The worker's refunds, in _save_result of an incomplete report and in
\* _mark_failed: the autoflushed UPDATE and SELECT ... FOR UPDATE lock the row.
RefundSelect(w) ==
  LET a == worker[w].job
  IN /\ \/ worker[w].pc = "saving" /\ ~worker[w].whole
        \/ worker[w].pc \in {"failing", "timing_out"}
     /\ ~worker[w].txn
     /\ Exists(a)
     /\ RowFree(a)
     /\ worker' = [worker EXCEPT ![w].txn = TRUE, ![w].seen = rows[a].spent]
     /\ UNCHANGED <<credits, rows, handler, queue, losses, ledger>>

\* _save_result(refund=True): partial result, refund and re-lock, one commit.
SavePartial(w) ==
  LET a == worker[w].job
  IN /\ worker[w].pc = "saving"
     /\ worker[w].txn
     /\ Refund(a, worker[w].seen)
     /\ rows' = [rows EXCEPT ![a] = Partial(@)]
     /\ worker' = [worker EXCEPT ![w].pc = "saved", ![w].txn = FALSE, ![w].seen = 0]
     /\ UNCHANGED <<handler, queue, losses>>

\* Where a task goes on after _mark_failed: run_pipeline re-raises, and the
\* task marks a SoftTimeLimitExceeded a second time.
AfterFailed(w) == IF worker[w].pc = "failing" /\ worker[w].soft
                  THEN "timing_out" ELSE "raised"

\* _mark_failed: status, refund and commit; the row stays unlocked.
FailCommit(w) ==
  LET a == worker[w].job
  IN /\ worker[w].pc \in {"failing", "timing_out"}
     /\ worker[w].txn
     /\ Refund(a, worker[w].seen)
     /\ rows' = [rows EXCEPT ![a] = Failed(@)]
     /\ worker' = [worker EXCEPT ![w].pc = AfterFailed(w),
                                 ![w].txn = FALSE, ![w].seen = 0]
     /\ UNCHANGED <<handler, queue, losses>>

FailMissing(w) ==
  /\ worker[w].pc \in {"failing", "timing_out"}
  /\ ~worker[w].txn
  /\ ~Exists(worker[w].job)
  /\ worker' = [worker EXCEPT ![w].pc = AfterFailed(w)]
  /\ UNCHANGED <<credits, rows, handler, queue, losses, ledger>>

\* acks_late: the message is acknowledged when the task has returned or raised.
Ack(w) ==
  /\ worker[w].pc \in {"saved", "raised"}
  /\ worker' = [worker EXCEPT ![w] = Idle]
  /\ UNCHANGED <<credits, rows, handler, queue, losses, ledger>>

\* SoftTimeLimitExceeded, once per task, wherever it executes; an open
\* transaction rolls back.  _mark_processing and _mark_failed are outside the
\* try of run_pipeline, the rest (after the commit of the report too) inside.
SoftLimit(w) ==
  /\ "soft_limit" \in Faults
  /\ worker[w].pc # "idle"
  /\ ~worker[w].soft
  /\ worker' = [worker EXCEPT ![w].soft = TRUE, ![w].txn = FALSE, ![w].seen = 0,
                  ![w].pc = IF @ \in {"running", "saving", "saved"}
                            THEN "failing" ELSE "timing_out"]
  /\ UNCHANGED <<credits, rows, handler, queue, losses, ledger>>

\* Mutant: acks_on_failure_or_timeout off, the message is queued again.
HardLimitRequeues(w) ==
  /\ "hard_limit" \in Faults
  /\ worker[w].pc # "idle"
  /\ queue' = [queue EXCEPT ![worker[w].job] = @ + 1]
  /\ worker' = [worker EXCEPT ![w] = Idle]
  /\ UNCHANGED <<credits, rows, handler, losses, ledger>>

\* The hard limit: the message is acknowledged and the process killed.
HardLimit(w) ==
  /\ "hard_limit" \in Faults
  /\ worker[w].pc # "idle"
  /\ worker' = [worker EXCEPT ![w] = Idle]
  /\ UNCHANGED <<credits, rows, handler, queue, losses, ledger>>

\* A database error: caught by run_pipeline only in _save_result.
DbError(w) ==
  /\ "db_error" \in Faults
  /\ worker[w].pc \in {"started", "saving", "failing", "timing_out"}
  /\ worker' = [worker EXCEPT ![w].txn = FALSE, ![w].seen = 0,
                  ![w].pc = IF @ = "saving" THEN "failing" ELSE "raised"]
  /\ UNCHANGED <<credits, rows, handler, queue, losses, ledger>>

\* Mutant: acks_late off, the message is gone with the worker.
WorkerLostAcked(w) ==
  /\ "worker_lost" \in Faults
  /\ worker[w].pc # "idle"
  /\ losses < MaxLosses
  /\ losses' = losses + 1
  /\ worker' = [worker EXCEPT ![w] = Idle]
  /\ UNCHANGED <<credits, rows, handler, queue, ledger>>

\* reject_on_worker_lost: the unacknowledged message is queued again.
WorkerLost(w) ==
  /\ "worker_lost" \in Faults
  /\ worker[w].pc # "idle"
  /\ losses < MaxLosses
  /\ losses' = losses + 1
  /\ queue' = [queue EXCEPT ![worker[w].job] = @ + 1]
  /\ worker' = [worker EXCEPT ![w] = Idle]
  /\ UNCHANGED <<credits, rows, handler, ledger>>

---------------------------------------------------------------------------
\* The steps a live API process takes once it has read the upload.
Answer(a) == \/ ChargeAndInsert(a) \/ RefreshFails(a)
             \/ EnqueueOk(a) \/ EnqueueTwice(a) \/ EnqueueError(a) \/ EnqueueAmbiguous(a)
             \/ CompensateSelect(a) \/ CompensateCommit(a) \/ CompensateMissing(a)

\* The steps a live worker takes.
Work(w) == \/ Receive(w) \/ MarkProcessing(w) \/ Analyze(w) \/ PipelineRaises(w)
           \/ SaveWhole(w) \/ RefundSelect(w) \/ SavePartial(w)
           \/ FailCommit(w) \/ FailMissing(w) \/ Ack(w)

Interrupt(w) == SoftLimit(w) \/ HardLimit(w) \/ DbError(w) \/ WorkerLost(w)

Next == \/ \E a \in Analyses : \/ Reject(a) \/ LoadUser(a) \/ Answer(a)
                               \/ HandlerDies(a) \/ Delete(a)
        \/ \E w \in Workers : Work(w) \/ Interrupt(w)

Spec == Init /\ [][Next]_vars

\* A live handler and a live worker go on; uploads and faults need not happen.
Fairness == /\ \A a \in Analyses : WF_vars(Answer(a))
            /\ \A w \in Workers : WF_vars(Work(w))

FairSpec == Spec /\ Fairness

---------------------------------------------------------------------------
(* What holds whatever goes wrong *)

\* Every credit taken for an upload is, at any time, in exactly one place:
\* on the row, back with the owner, or gone with a deleted row.  In
\* particular the API's compensation, the worker's failure path, its second
\* failure path on a soft timeout and a redelivered run never refund twice.
CreditAccounted ==
  \A a \in Analyses :
    ledger[a].charged = ledger[a].refunded + rows[a].spent + ledger[a].kept

\* The FOR UPDATE reads and the updates they guard never overlap: at most one
\* transaction holds a row.
RowLockExclusive ==
  \A a \in Analyses : \A w \in Workers :
    Holds(w, a) => /\ ~handler[a].txn
                   /\ \A v \in Workers \ {w} : ~Holds(v, a)

\* A failed analysis has given its credit back: no interleaving of the API
\* and the workers commits status = failed and leaves credits_spent behind.
FailedIsRefunded ==
  \A a \in Analyses : rows[a].status = "failed" => rows[a].spent = 0

\* Locking a row always returns its credit: a user never pays for a report
\* that stays behind the preview, even after redelivered runs.
PaidIsUnlocked ==
  \A a \in Analyses : rows[a].spent = 1 => rows[a].unlocked

\* A report without its paid analyzers is never shown unlocked, whichever
\* delivery of the message computed it.
PartialIsLocked ==
  \A a \in Analyses : rows[a].result = "partial" => ~rows[a].unlocked

\* Where the credit of a is, in the terms of CreditLedger.
Ticket(a) == IF ledger[a].charged = 0 THEN "unused"
             ELSE IF ledger[a].refunded > 0 THEN "returned"
             ELSE IF ledger[a].kept = 1 THEN "kept" ELSE "held"

Accounting == INSTANCE CreditLedger WITH
                Tickets <- Analyses,
                balance <- credits,
                ticket <- [a \in Analyses |-> Ticket(a)]

\* The accounting implements the abstract ledger: each step charges, returns
\* or keeps one whole credit of one upload, or moves none.
ImplementsLedger == Accounting!Spec

---------------------------------------------------------------------------
(* What holds while no message is delivered twice and no task is cut short *)

\* What get_analysis shows in full: _detail looks at result and unlocked only.
ShownInFull(a) == rows[a].result = "full" /\ rows[a].unlocked

\* "There is no free full report" (README.md:38): whoever can read one holds
\* it against a spent credit, or was premium when it was uploaded.
NoFreeFullReport ==
  \A a \in Analyses :
    ShownInFull(a) => rows[a].spent = 1 \/ handler[a].premium

\* A status only moves forward: a finished analysis never goes back to
\* processing, and a completed one never turns into a failed one.
Rank == [s \in Status |-> CASE s = "absent" -> 0 [] s = "pending" -> 1
                            [] s = "processing" -> 2 [] OTHER -> 3]
StatusForward ==
  [][\A a \in Analyses :
       Exists(a)' => /\ Rank[rows[a].status] <= Rank[rows'[a].status]
                     /\ rows[a].status \in {"completed", "failed"} =>
                          rows'[a].status = rows[a].status]_vars

\* The credit of a delivered full report is never handed back afterwards.
DeliveredStaysPaid ==
  [][\A a \in Analyses :
       ShownInFull(a) => ledger'[a].refunded = ledger[a].refunded]_vars

---------------------------------------------------------------------------
(* What the queue and the failure paths guarantee about progress *)

\* An unfinished analysis is always in somebody's hands: its handler, a
\* message in the broker, or a worker.
UnfinishedIsOwned ==
  \A a \in Analyses :
    rows[a].status \in {"pending", "processing"} =>
      \/ handler[a].pc \in {"committed", "compensating"}
      \/ queue[a] > 0
      \/ \E w \in Workers : worker[w].job = a

\* Every analysis ends up completed or failed, and stays so, across requeued
\* and duplicated messages, publish failures and soft timeouts.
EventuallySettled ==
  <>[](\A a \in Analyses : rows[a].status \in {"absent", "completed", "failed"})

\* A credit is for a delivered report or it comes back: "refunded if the
\* analysis fails, cannot be queued, or finishes without sentiment or
\* narrative" (README.md:38).
PaidIsDeliveredOrRefunded ==
  \A a \in Analyses :
    rows[a].spent = 1 ~> (rows[a].status = "completed" \/ rows[a].spent = 0)
===========================================================================
