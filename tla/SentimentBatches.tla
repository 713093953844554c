------------------------- MODULE SentimentBatches -------------------------
(***************************************************************************)
(* SentimentAnalyzer.analyze with the Gemini backend: the sampled texts    *)
(* are cut into batches, a thread pool scores them with retries, and the   *)
(* main thread collects the results in order.  A batch that fails for good *)
(* or too many unscored texts send the whole sample to the local models,   *)
(* which may not be installed.  Celery's soft limit may interrupt the main *)
(* thread at any time.                                                     *)
(***************************************************************************)
EXTENDS Integers, Sequences, SequencesExt, FiniteSetsExt

CONSTANTS MaxTexts,      \* bound on the sample
          BatchSize,     \* _BATCH_SIZE
          MaxRetries,    \* _MAX_RETRIES
          Concurrency,   \* _CONCURRENCY
          Share,         \* _MAX_MISSING_SHARE as <<numerator, denominator>>
          MaxItems,      \* bound on the items of one response
          MaxBroken,     \* bound on the broken calls of a behaviour
          Backends,      \* what _resolve_backend may choose
          SoftLimits     \* may SoftTimeLimitExceeded be raised?

ASSUME SizeAssumption == BatchSize \in Nat \ {0} /\ Concurrency \in Nat \ {0}
ASSUME BoundAssumption == {MaxTexts, MaxRetries, MaxItems, MaxBroken} \subseteq Nat
ASSUME ShareAssumption == Share \in Nat \X (Nat \ {0})
ASSUME BackendAssumption == Backends \subseteq {"gemini", "local"} /\ SoftLimits \in BOOLEAN

VARIABLES n,        \* texts of the sample
          batch,    \* batch[b]: the future of batch b
          main,     \* the main thread
          next,     \* the batch it waits for
          scores,   \* what it has collected: <<>> or a score per text
          broken    \* calls that failed so far

vars == <<n, batch, main, next, scores, broken>>

Unscored == 0          \* the default 0.0; no text of the model is neutral
Mood(k) == k           \* what a correct rating of text k says
Noise == -1            \* what a repeated item says

Batches == 1..((n + BatchSize - 1) \div BatchSize)
First(b) == (b - 1) * BatchSize + 1
Size(b) == Min({BatchSize, n - First(b) + 1})

Future == [state : {"queued", "running", "scored", "failed", "cancelled"},
           attempts : 0..(MaxRetries + 1), scores : Seq(Int), missing : Nat]

Ended == {"llm", "local", "unavailable", "insufficient", "timeout"}

TypeOK == /\ n \in 0..MaxTexts
          /\ batch \in [Batches -> Future]
          /\ main \in {"collecting", "draining", "judging", "falling_back",
                       "stopping"} \cup Ended
          /\ next \in 1..(Len(batch) + 1)
          /\ scores \in Seq(Int)
          /\ broken \in 0..MaxBroken

\* Fewer than five texts are not analysed; only the Gemini backend submits
\* batches.
Init == /\ n \in 0..MaxTexts
        /\ \E backend \in Backends :
             main = IF n < 5 THEN "insufficient"
                    ELSE IF backend = "gemini" THEN "collecting" ELSE "falling_back"
        /\ batch = [b \in Batches |->
             [state |-> IF main = "collecting" THEN "queued" ELSE "cancelled",
              attempts |-> 0, scores |-> <<>>, missing |-> 0]]
        /\ next = 1 /\ scores = <<>> /\ broken = 0

---------------------------------------------------------------------------
(* _parse_batch.  A response is a list of local indices; an item that       *)
(* repeats an index carries another score.                                  *)

\* Mutant: the last item of an index wins.
TakenLast(response, j) == response[j] >= 0

\* An item counts when its index was not seen before.
Taken(response, j) == ~\E i \in 1..(j - 1) : response[i] = response[j]

Says(b, response, j) == IF \E i \in 1..(j - 1) : response[i] = response[j]
                        THEN Noise ELSE Mood(First(b) + response[j])

\* Indices are local to the batch and start at 0; others are dropped.
ParseBatch(b, response) ==
  FoldLeftDomain(LAMBDA acc, j :
       IF response[j] + 1 \in DOMAIN acc /\ Taken(response, j)
       THEN [acc EXCEPT ![response[j] + 1] = Says(b, response, j)] ELSE acc,
     [k \in 1..Size(b) |-> Unscored], response)

Missing(parsed) == Cardinality({k \in DOMAIN parsed : parsed[k] = Unscored})

\* What the model may send for batch b: any order, gaps, repeats, indices
\* beyond the batch.
Responses(b) == UNION {[1..m -> 0..Size(b)] : m \in 0..MaxItems}

---------------------------------------------------------------------------
(* The pool threads: _score_batch *)

Running == {b \in Batches : batch[b].state = "running"}

\* Threads take the batches in the order they were submitted.
StartBatch(b) ==
  /\ batch[b].state = "queued"
  /\ \A c \in 1..(b - 1) : batch[c].state # "queued"
  /\ Cardinality(Running) < Concurrency
  /\ batch' = [batch EXCEPT ![b].state = "running"]
  /\ UNCHANGED <<n, main, next, scores, broken>>

CallAnswered(b) ==
  /\ batch[b].state = "running"
  /\ \E response \in Responses(b) :
       LET parsed == ParseBatch(b, response)
       IN batch' = [batch EXCEPT ![b].state = "scored", ![b].scores = parsed,
                       ![b].attempts = @ + 1, ![b].missing = Missing(parsed)]
  /\ UNCHANGED <<n, main, next, scores, broken>>

\* Mutant: one attempt more than the first and its retries.
CallBrokenOnceMore(b) ==
  /\ batch[b].state = "running"
  /\ broken < MaxBroken
  /\ broken' = broken + 1
  /\ batch' = [batch EXCEPT ![b].attempts = @ + 1,
                 ![b].state = IF batch[b].attempts > MaxRetries THEN "failed" ELSE @]
  /\ UNCHANGED <<n, main, next, scores>>

\* The call raises or its text is no JSON list: retried, or failed for good.
CallBroken(b) ==
  /\ batch[b].state = "running"
  /\ broken < MaxBroken
  /\ broken' = broken + 1
  /\ batch' = [batch EXCEPT ![b].attempts = @ + 1,
                 ![b].state = IF batch[b].attempts = MaxRetries THEN "failed" ELSE @]
  /\ UNCHANGED <<n, main, next, scores>>

---------------------------------------------------------------------------
(* The main thread: pool.map, score_messages, analyze *)

\* Mutant: the batches that wait are left to run.
CancelNothing(bs) == bs

\* An exception in the collecting loop cancels what has not started.
CancelQueued(bs) == [b \in DOMAIN bs |-> IF bs[b].state = "queued"
                                         THEN [bs[b] EXCEPT !.state = "cancelled"]
                                         ELSE bs[b]]

\* Mutant: a failed batch is not noticed.
CollectScoredOnly ==
  /\ main = "collecting"
  /\ next \in Batches
  /\ batch[next].state = "scored"
  /\ scores' = scores \o batch[next].scores
  /\ next' = next + 1
  /\ UNCHANGED <<n, batch, main, broken>>

Collect ==
  /\ main = "collecting"
  /\ next \in Batches
  /\ \/ /\ batch[next].state = "scored"
        /\ scores' = scores \o batch[next].scores
        /\ next' = next + 1
        /\ UNCHANGED <<batch, main>>
     \/ /\ batch[next].state = "failed"
        /\ batch' = CancelQueued(batch)
        /\ main' = "draining"
        /\ UNCHANGED <<scores, next>>
  /\ UNCHANGED <<n, broken>>

\* Mutant: the pool is shut down without waiting.
DrainAtOnce == /\ main = "draining"
               /\ main' = "falling_back"
               /\ UNCHANGED <<n, batch, next, scores, broken>>

\* The pool shuts down and waits for the threads; then the error goes on.
Drain ==
  /\ main = "draining"
  /\ Running = {}
  /\ main' = "falling_back"
  /\ UNCHANGED <<n, batch, next, scores, broken>>

AllCollected == /\ main = "collecting"
                /\ next \notin Batches
                /\ main' = "judging"
                /\ UNCHANGED <<n, batch, next, scores, broken>>

\* Mutant: the share is taken per batch instead of over the sample.
TooManyMissingPerBatch ==
  \A b \in Batches : batch[b].missing * Share[2] > Share[1] * Size(b)

TooManyMissing ==
  MapThenSumSet(LAMBDA b : batch[b].missing, Batches) * Share[2] > Share[1] * n

Judge == /\ main = "judging"
         /\ main' = IF TooManyMissing THEN "falling_back" ELSE "llm"
         /\ UNCHANGED <<n, batch, next, scores, broken>>

\* _score_local: every text anew, or ImportError.
FallBack ==
  /\ main = "falling_back"
  /\ \/ main' = "local" /\ scores' = [k \in 1..n |-> Mood(k)]
     \/ main' = "unavailable" /\ UNCHANGED scores
  /\ UNCHANGED <<n, batch, next, broken>>

\* Raised in the main thread: while it collects, the pool is shut down first;
\* while it drains, that wait itself is interrupted.
SoftLimit ==
  /\ SoftLimits
  /\ main \in {"collecting", "draining", "judging", "falling_back"}
  /\ main' = IF main = "collecting" THEN "stopping" ELSE "timeout"
  /\ batch' = CancelQueued(batch)
  /\ UNCHANGED <<n, next, scores, broken>>

Stop == /\ main = "stopping"
        /\ Running = {}
        /\ main' = "timeout"
        /\ UNCHANGED <<n, batch, next, scores, broken>>

Thread(b) == StartBatch(b) \/ CallAnswered(b) \/ CallBroken(b)
Main == Collect \/ Drain \/ AllCollected \/ Judge \/ FallBack \/ Stop

Next == \/ \E b \in Batches : Thread(b)
        \/ Main \/ SoftLimit

Spec == Init /\ [][Next]_vars

\* A call ends (answer, error or its timeout), threads and main go on.
Fairness == /\ \A b \in 1..MaxTexts : WF_vars(b \in Batches /\ Thread(b))
            /\ WF_vars(Main)

FairSpec == Spec /\ Fairness

---------------------------------------------------------------------------
(* Properties *)

\* Whatever the model omits, repeats or numbers wrongly and in whatever order
\* the batches end, each text gets its own rating or none ("aligned with
\* texts", sentiment_llm.py:195).
Aligned ==
  main \in {"llm", "local"} =>
    Len(scores) = n /\ \A k \in 1..n : scores[k] \in {Mood(k), Unscored}

\* A run is accepted only if every batch was scored and at most the allowed
\* share of the whole sample came back without a rating.
AcceptedIsScored ==
  main = "llm" =>
    Cardinality({k \in 1..n : scores[k] # Mood(k)}) * Share[2] <= Share[1] * n

\* Both together: what the report shows of a person's tone is their own.
ScoresAreTrue == Aligned /\ AcceptedIsScored

\* The local models start on a quiet process: no call of the pool is still
\* running or waiting when the sample is scored again (the worker runs one
\* task at a time so as not to hold two copies of a model, tasks.py:26).
PoolIsQuiet ==
  main \in {"judging", "falling_back", "llm", "local", "unavailable"} =>
    \A b \in Batches : batch[b].state \notin {"running", "queued"}

\* The requests made for batch b: those that ended and the one under way (or
\* about to be repeated).
Requests(b) == batch[b].attempts + (IF batch[b].state = "running" THEN 1 ELSE 0)

\* Once the main thread has noticed that a batch failed for good, or was
\* interrupted, no further batch is sent to the provider. The calls that run
\* then are not stopped: they end, and those that break are still repeated
\* (_score_batch knows nothing of the failure), but no batch is sent more than
\* _MAX_RETRIES times after its first request.
OnlyRetriesAfterFailure ==
  [][main # "collecting" =>
       \A b \in Batches : Requests(b)' > Requests(b) =>
         batch[b].state = "running" /\ Requests(b)' <= MaxRetries + 1]_vars

\* The analyzer ends with a result or a fixed error, whatever calls break.
Ends == <>(main \in Ended)
===========================================================================
