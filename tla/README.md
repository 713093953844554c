# LastSeen backend: TLA+ models and proofs

LastSeen takes a chat export, analyses it in a background worker and sells the
full report for one credit. The risk of the program is in the seams: a charge
that is committed before the job is queued, a queue that delivers a message
again, tasks that are killed, two processes that refund the same row, and a
payment provider that repeats and reorders its webhooks. Behind them sit
algorithms whose answers a user can hardly check: which messages were sampled,
when a conversation broke, whose turn it was, when it began to go wrong. These
modules model both from the code under `src/`, check them with TLC on small
instances, and prove with TLAPS, for any number of users, uploads, workers,
orders and requests, what they promise about credits, accounts, scores and the
paywall, and for chats of any length what they promise about the analysis.

## The system

| Part | Source | State it keeps | Operations | How it meets the others |
|---|---|---|---|---|
| Upload API | `app/api/v1/routes/upload.py` | none of its own; locals of a request across awaits | validate, read, charge and insert, publish, compensate; guest upload; guest status | writes `users` and `analyses`, publishes to Celery, calls the credit service |
| Analyses API | `app/api/v1/routes/analysis.py` | none | list, get, status, delete | reads and deletes `analyses`; decides between preview and full by `unlocked` |
| Credit accounting | `app/services/credits.py` | `users.credits`, `analyses.credits_spent` | `spend_credit`, `refund_analysis_credit` (worker), its async twin (API) | called inside the caller's transaction |
| Celery task | `app/workers/tasks.py` | broker queue, unacknowledged message | receive, soft limit, hard limit, acknowledge, requeue on loss | runs the pipeline, marks a timeout |
| Pipeline | `app/workers/pipeline.py` | `analyses.status/result/unlocked/error` | mark processing, parse, filter, analyse, save, mark failed | one database transaction per helper |
| Payments | `app/services/payments.py`, `app/api/v1/routes/payments.py` | `payments`, `users.credits` | order created, order refunded, checkout, balance | webhooks from Lemon Squeezy, retried until a 2xx |
| Accounts | `app/api/v1/routes/auth.py`, `app/core/dependencies.py` | `users` | register, login, Google login and linking | tokens name the user of every other call |
| Rate limits | `app/core/ratelimit.py` | Redis counters | per user or per address | in front of upload and auth routes |
| Admin site | `app/admin/views.py`, `app/main.py` | session flag | edit users (credits too), delete analyses | writes the same rows as the API |
| Access rules | `app/services/access.py` | none | preview, teaser | applied to a stored result |
| Analyzers | `app/analyzers/*` | none | temporal, sentiment, conflict, narrative | run in order, each sees earlier results |
| Parsers | `app/parsers/*` | none | WhatsApp, Telegram, iMessage | turn an export into messages |

### What is hard, and what makes each part correct

- **Upload, worker and credits** (concurrency, crashes, timeouts,
  redelivery). One credit is charged per upload at most; it is in exactly one
  place at any time; a failure returns it once; a full report is only shown
  against a credit or to a premium user; every analysis settles.
- **Payments** (duplicates, reordering, concurrent handlers, retries). A pack
  is granted once per order; a refund takes back at most the pack and all that
  is left; a refunded order is final; a 200 means that the event took effect.
- **Accounts** (check then insert, linking by email). One account per email
  and per Google identity.
- **LLM scoring** (a pool of batches that fail and are retried; a threshold on
  what is missing). A score is attached to the right message, and an accepted
  run misses at most the allowed share.
- **Analyzers and parsers** (boundaries). Samples within their budget and over
  the whole chat, blocks that partition the messages, a date order that the
  whole export agrees with.

The full list of hazards, each at its line and with the properties that cover
it, is `hazards` in `PROJECT.json`. Five of them are in the models but are
nothing a property forbids, because the accounting stays right while the user
or the owner loses; their notes say so: the API dying after the charge, a
database error before the pipeline's `try`, the clamp of a balance at zero, a
stale admin form over a balance, and (while the second run lasts) a redelivered
message that takes a finished row back to processing.

## Plan

Built:

1. `Analyses` with the abstract `CreditLedger` and the proofs `AnalysesProofs`.
2. `Payments`; `LastSeen`, which composes it with `Analyses` and the admin form
   over one balance and implements the abstract `CreditBook`.
3. `Auth`: accounts as concurrent requests, with the admin form.
   Proofs of 2 and 3: `PaymentsProofs`, `AuthProofs`.
4. `SentimentBatches`: the thread pool of the LLM scoring.
5. `Reports`: one run of the pipeline, its outcomes, and what is shown of them.
6. `ChatParsing`, `Sampling`, `Conversations`, `DecayTrend`, `Episodes`, `Tone`:
   the algorithms of the parsers and analyzers; `Analyzers` composes them.
7. `FiniteSums`, `LastSeenProofs`, `SentimentBatchesProofs`, `ReportsProofs`,
   `AnalyzersProofs`: proofs about the composition, the thread pool, the runs,
   and all the properties of the parsers and analyzers.

Left: guest uploads with their Celery result; the counting sections of the
temporal analyzer; language detection and emotions.

## Modules

| Module | Models | Composed by |
|---|---|---|
| `Analyses` | `upload.py`, `analysis.py`, `tasks.py`, `pipeline.py` (transactions), `credits.py` | `LastSeen` |
| `CreditLedger` | abstract: one ticket per upload | implemented by `Analyses` |
| `AnalysesProofs` | theorems about `Analyses` | |
| `Payments` | `services/payments.py`, the webhook route | `LastSeen` |
| `PaymentsProofs` | theorems about `Payments` | |
| `LastSeen` | everything that writes `User.credits`, with `admin/views.py` | |
| `LastSeenProofs` | theorems about `LastSeen`; instantiates `AnalysesProofs` and `PaymentsProofs` | |
| `CreditBook` | abstract: tickets and orders over a balance; extends `CreditLedger` | implemented by `LastSeen` |
| `Auth` | `auth.py`, `models/user.py`, `admin/views.py` | |
| `AuthProofs` | theorems about `Auth` | |
| `Reports` | `pipeline.py` (content), `access.py`, `_detail`, how each analyzer ends | |
| `ReportsProofs` | theorems about `Reports` | |
| `SentimentBatches` | `sentiment_llm.py` and the fallback of `sentiment.py` | |
| `SentimentBatchesProofs` | theorems about `SentimentBatches` | |
| `FiniteSums` | lemmas: induction over numbers and finite sets, folds and sums, the least, k-th or first few elements of a set and its listing in an order | `LastSeenProofs`, `SentimentBatchesProofs`, `AuthProofs`, `AnalyzersProofs` |
| `ChatParsing` | `parsers/` | `Analyzers` |
| `Sampling` | `_sample`, `_spaced` of `sentiment.py`, `_weekly_timeline` of `narrative.py` | `Analyzers` |
| `Conversations` | handoffs, response times, blocks, initiative and weeks of `temporal.py` | `Analyzers` |
| `DecayTrend` | health, trend, closing phase and turning point of `temporal.py` | `Analyzers` |
| `Episodes` | `_episodes` of `conflict.py`, `_conflict_summary` of `narrative.py` | `Analyzers` |
| `Tone` | dominant tone, drift and recent shift of `sentiment.py` | `Analyzers` |
| `Analyzers` | the six modules above, side by side | `MCAnalyzers` |
| `AnalyzersProofs` | theorems about `Analyzers`, with a part for each of the six | |

The names that differ from a definition only by a suffix, introduced by
"Mutant:", are plausible bugs of that definition. They are in no specification;
`PROJECT.json` says which property each of them breaks.

### Analyses

| TLA+ | Code |
|---|---|
| `credits[u]` | `User.credits` |
| `rows[a]` | the `analyses` row: `status`, `result`, `unlocked`, `credits_spent`; `"absent"` before the insert and after a delete |
| `handler[a]` | one call of `upload_chat`: where it is, the `is_premium` it read, the tier it will send, whether its refund holds the row lock and the `credits_spent` it read there |
| `queue[a]` | copies of the message of `a` in the broker |
| `worker[w]` | the task a worker process runs: where it is, its job, whether the report is complete, whether the soft limit has fired, its row lock |
| `ledger[a]` | history only: charged, refunded, kept with a deleted row |

A transaction that begins with the write of a row and holds it until the
commit is one step. Refunds are two steps, because their correctness rests on
the lock that lies between the read of `credits_spent` and the write: the API
reads with `SELECT ... FOR UPDATE`, the worker's session flushes an `UPDATE` of
the same row first and then selects. Everybody else who writes the row waits
(`RowFree`). A lost process or an exception closes the transaction, so it
releases the lock without a write.

The environment is the set `Faults`: publish errors, publish errors after the
broker took the message, publishes retried twice, worker loss (the message is
queued again, at most `MaxLosses` times), the soft limit at any point of the
task, the hard limit (acknowledged, not requeued), database errors, and an API
process that dies. Two kinds of data are abstracted: the analyzers end in one of
"complete", "an analyzer reported an error" (only in a full run, as in
`_is_incomplete`) or "raised"; and `is_premium` may be read either way, since
only the admin site changes it. Error codes and the contents of reports and
previews are in `Reports`.

### CreditLedger

Tickets that are unused, held, returned or kept, and balances. `Charge`,
`GiveBack` and `Keep` are the only steps. `Analyses` implements it with the
mapping `Ticket(a)`, checked by TLC and proved.

### Payments

| TLA+ | Code |
|---|---|
| `payments[o]` | the committed row of order `o` (unique on provider and order id) |
| `handler[h]` | one call of the webhook route between its SQL statements |
| `sent`, `answered` | the provider: events it sent, events it has a 2xx for |
| `ledger` | history: credits granted and taken back per order |

`InsertOrder` waits while another transaction has inserted the same order id
and not committed (`Inserting`), as PostgreSQL does on the unique constraint;
`SelectOrder` sees committed rows only and waits for a row lock (`Locked`).
`CommitOrder` and `ApplyRefund` end their transactions. The provider delivers
an event until it is answered with 200, and up to `MaxDuplicates` times more,
also concurrently. `MaxFailures` bounds the deliveries that end in a 500.
Users spend credits in between, so that a refund may find too few.
`EventsAnswered` says of each order that the events the provider has sent are,
sooner or later, all answered.

### LastSeen and CreditBook

`LastSeen` instantiates `Analyses` and `Payments` with one `credits`. A step is
a step of either, or of the admin: `OpenForm` fills the edit form of a user with
the balance, `SaveForm` writes it back as it was shown. `Payments`' `Spend` is
left out because uploads are what spends here. `corrected[u]` is history: how
far saves have moved the balance. `CreditBook` adds orders to the tickets of
`CreditLedger`: `Grant`, `TakeBack` (no more than there is) and `Close` (a refund
that comes first). Every step but `SaveForm` implements one of its steps.

### Auth

`users` is the table as a sequence, so that an id is a position; `request[r]` is
one call with what it read before its last await. Steps end at awaits:
each SELECT, the bcrypt work in the thread pool, each commit, the refresh after
it. The unique indexes are `Unique`; a commit that violates them ends in a 500.
`could[r]` is history: `AtOnce`, the answer the route would give if it ran alone,
at every moment of the call; `AnsweredAsIfAlone` asks for the answer to be one of
them. The properties name what is beyond the code to promise. `SameAccount`
leaves out two Google identities that are `Contested` over one address, and a
form that wrote back an old `google_sub`. `AnsweredAsIfAlone` holds without
either; once a form has been saved it is claimed only while identities and
addresses are `OneToOne`. An earlier form of it excluded no more than
`Contested`, and an attempt to prove it failed: a request links row 1 to an
identity, a late form takes its google_sub away again, the same identity comes
back with a changed address and gets row 2, and when a second form deactivates
row 1, the first request, still before its refresh, is told that its account is
disabled while its identity has another one. The run has two forms since, to
reach this.

### SentimentBatches

`batch[b]` is the future of a batch, `main` the thread that collects in order.
A response is any list of local indices: missing, repeated, beyond the batch.
An item that repeats an index carries another score, so taking the wrong one
shows. The soft limit is raised in the main thread; leaving the `with` block
cancels what has not started and waits for what runs.

### Reports

A run from the choice of a parser to the saved row, for every tier, owner or
guest, set of configured keys, size and date range, and every way each analyzer
may end.

| TLA+ | Code |
|---|---|
| `parser`, `upload` | what `_select_parser` finds, and what `parse` then comes to: a chat, too many messages, or an exception on an entry it cannot read |
| `export`, `range`, `people` | the chat, which may be empty; the dates asked for; the participants after `_filter_by_date` |
| `todo`, `results`, `calls` | the loop over `_ANALYZERS`; who called an LLM |
| `limit` | whether `SoftTimeLimitExceeded` was raised |
| `row` | status, error code, `unlocked`, refunded |

A recognised upload may still be malformed: Telegram's parser raises on an entry
without a date or with one that is no date (`telegram.py:24-30`), and the code for
that is `internal_error`. Telegram's does not count messages, WhatsApp's skips lines it cannot
read, so `Readings` differs by parser. `SoftLimit` may strike at any place,
after the save or after a failure too; `run_pipeline` marks the row first and
`process_chat_upload` marks it again with `timeout` (`tasks.py:76-80`). `Sections`
gives the stored report its keys; `Shown` is what the routes return.

### ChatParsing, Sampling, Conversations, DecayTrend, Episodes, Tone

Pure functions of a chat. Each module has one variable or a few, the input,
which grows by one line, message, week or event at a time: TLC evaluates the
operators on every input within the bounds, and action properties say what one
more message may change. Real numbers are exact: hours, tenths, thousandths,
or numerator and denominator. Where the code compares two floats that are equal
as fractions the rounding decides, and the operator returns the set of outcomes
(`Allocations`, `TurningPoints`, `Dominants`, `Rounded`, `Shifts`). Where it rounds
a number and goes on with it (the delta of each person, `sentiment.py:405`), so does
the operator. A line of an export is a record of
what the regular expressions find in it, with its true date beside.

`Analyzers` holds them in one specification: they share nothing but the chat they
are given one after the other, so `topic` chooses which of them a behaviour is
about. `Sampling` occurs twice, for ordered and for unordered exports.

The loop over the lines of an export (`After`) is a recursive function of the
number of lines read, and whatever the code sorts is listed by rank: element *k*
is the one with *k* - 1 before it (`InWeek`, `InTime`, `InOrder`). So TLC
evaluates and the proofs unfold one and the same definition.

## Runs

| Run | Instance | Shows |
|---|---|---|
| `analyses_faults` | 2 uploads, 1 credit, 2 workers; every fault, 1 loss | `CreditAccounted`, `RowLockExclusive`, `FailedIsRefunded`, `PaidIsUnlocked`, `PartialIsLocked` |
| `analyses_progress` | 2 uploads, 1 worker; publish faults, 1 loss, soft limits; fair | unfinished work is owned; everything settles for good; a credit is delivered against or comes back; implements `CreditLedger` |
| `analyses_redelivery` | 1 upload, 1 loss | violation: a free full report (finding 1) |
| `analyses_hard_limit` | 1 upload, hard limit; fair | violation: a credit that never comes back (finding 2) |
| `payments_concurrent` | 3 orders (one matches no variant, one unpaid), 2 handlers, 1 failure, 1 duplicate; fair | granted once; refunds take all that is left and no more; refunded is final; 200 means recorded; every webhook is answered |
| `payments_refund_race` | 1 order, 2 handlers | violation: a refund that is answered and lost (finding 3) |
| `lastseen` | 2 uploads, 1 worker, 1 order, 1 handler, 1 form; publish, hard-limit, database and API faults | the balance is what orders and uploads add up to; implements `CreditBook`; messages delivered once give no free report and move no status back |
| `auth` | 3 calls, 2 addresses, 2 passwords, 2 identities (3 pairs), 2 forms | answers right at some moment, one account per identity, no password on a linked account |
| `sentiment_batches` | up to 6 texts in batches of 2, pool of 2, 1 retry, 3 broken calls; fair | true scores, quiet pool, nothing but retries after a failure, an end |
| `analyzers` | see below | the parsers and analyzers |
| `reports` | 3 exports, one of them empty, 2 days, everything else in full | `PaywallHolds`, `RunIsReportedTrue` |
| `reports_teaser` | the same | violation: the lock screen (finding 4) |

The conjunctions of the `analyzers` and `reports` runs have one named definition
per claim, with its comment, in the modules. In short:

- `ExportIsReadTrue`: every message has its true date once the export has shown
  its locale; no text is lost up to the cap; both caps are exact.
- `SampleIsFair`: the budget is used exactly, every week and the newest message
  are heard, busier weeks get no less, samples are in order, and the narrative
  thins its timeline as the sampler spaces.
- `BlocksFollowSilences`: blocks break at long silences and never at short ones,
  as rarely as the percentile promises; initiatives follow from the block before.
- `MetricsAgree`: turns and neighbours give the same answers, p90 and the share
  within the hour agree, covered days hold the messages, silences show.
- `PastStands`: one more message leaves a conversation between silences above
  the ceiling of the threshold, with no gap of its own above its floor, whole and
  with the opening it had, and changes the kind of no
  finished conversation *as long as the percentile threshold stays* (it moves
  with the chat, and may then cut finished conversations anew); it lowers no
  week's neglect; and no event shrinks an episode.
- `VerdictIsInTheWeeks`: start, turning point, trend and score name weeks that
  bear them out.
- `EpisodesAreWhole`: maximal runs of conflict days, each mention counted once,
  the grave ones kept.
- `ToneIsOfBoth`: the dominant tone is a largest one, a silent partner does not
  drift, the quarter that is named for the turn is the one in which the pair
  parted exactly when both wrote in every quarter before it, and a shift has a
  baseline, is someone's and is not one of volume.
- `RunIsReportedTrue`: `timeout` exactly when the soft limit struck, else
  `parse_failed`, `chat_too_large` and `empty_date_range` exactly when that is what
  is wrong, so `internal_error` is what remains: malformed uploads and analyzers
  that raise; participants are those who spoke.

The runs switch deadlock checking off because these systems do stop: when
every upload is settled, every event answered or the input as long as it may
be, nothing is left to do but faults that have reached their bound. That
nothing stops too early is the subject of the liveness properties.

**Bounds.** Credits are counted per row and per order, rows do not interact
except through a balance, so two uploads (or orders) of one user with one
credit show every competition for it. A row is touched by its handler and by
the tasks that hold a copy of its message; copies come from a retried publish,
an ambiguous publish and losses, so two workers and one loss reach the states
where three actors want the same row. `analyses_faults` is symmetric in uploads
and workers; it has no liveness property. In `payments_concurrent` one duplicate delivers an event
again beside its first delivery. In `auth` three calls are two that race and one
before or after. In `sentiment_batches` six texts make three batches, one more
than the pool has threads, and five leave a short last batch. The chats of
`analyzers` are a step longer than the longest situation a property speaks of
(a threshold on both sides, a merge of two episodes, a baseline and a window,
two quarters); thresholds are scaled down so that they are reached. In a chat of
five messages with `MinSample = 3` the pair has a rhythm before and after the fifth,
and the gaps of `MCChatSteps` let it move the threshold over a finished
conversation or leave it; five scored messages reach three quarters of which an
earlier one is one-sided. The rounding of deltas moves one across 0.1 only when
it is within half a thousandth of it, for scores in tenths a person with at least
some thirty messages, which TLC cannot reach; the proof covers them.

**Fairness.** A handler that can go on does (the API process schedules its
coroutines) and a worker that can go on does (Celery polls the broker, the
analyzers end or are cut by the limits). No fairness is assumed of uploads,
users, deletions or faults. Deliveries of the provider are strongly fair: it
retries an event that was not answered, and a free handler comes up again and
again while others wait for a row. Failures are bounded below the provider's
number of retries. In `SentimentBatches` threads go on, a call ends with an
answer, an error or its timeout, and the main thread goes on.

## Findings

1. `_mark_failed` returns the credit but leaves `unlocked` set, and neither it
   nor `_save_result` looks at what an earlier run of the same message left.
   With a requeue after the commit (also: a duplicate publish, an ambiguous
   publish, a soft limit after the save) a row ends with a full result,
   unlocked, and no credit. README.md:38 says there is no free full report.
2. A task killed at the hard limit is acknowledged; its row stays `processing`
   and keeps the credit. README.md:38 says a failed analysis is refunded.
3. A refund webhook that runs concurrently with its `order_created` can be
   answered 200 without any effect (`services/payments.py:161-176`).
4. `closing_phase` is never an empty dict, so the flag of the lock screen is true
   whenever the decay metric ran (`services/access.py:72`).

Seen while modelling, part of the models, but without a run of their own:

- The API dying between the charge and the publish has the effect of finding 2
  in `pending` (`upload.py:135`).
- A refunded order whose credit was on an analysis: the clamp forgets it, and a
  later failure of the analysis gives it back (`payments.py:190`,
  `credits.py:43`). `CreditBook` allows it: the balance is what the steps add up to.
- A stale admin form lets a spent credit be spent again (`admin/views.py:17`);
  `BalanceIsOwed` keeps the difference in `corrected`.
- In a block A B A B the opener's first message is bucketed as `abandoned_open`
  although it was answered twice (`temporal.py:166` and 176-177).
- Delays of more than a day count in `_delayed_replies` and not in the decay
  metric (`temporal.py:703-710` and 563); a week without a message has no entry
  (`temporal.py:518-520` and 573).
- The Telegram parser neither counts nor cuts (`parsers/base.py:5-8`): the caps
  of `ExportIsReadTrue` are of the other two.
- `sentiment.py:338` indexes all quarters with a position among the shared ones,
  so after a one-sided quarter the turning point that is reported is an earlier
  quarter than the one meant; `TurnsWhereTheyParted` says that this happens
  then and only then.
- A new message may move the 95th percentile of the gaps, and with it the
  threshold at which conversations break (`temporal.py:744-758`): initiatives
  long past are then counted anew, without any message of that time.
- An unreadable entry in a Telegram export is reported as `internal_error`, not as
  `parse_failed` (`telegram.py:30`, `pipeline.py:132-146`).
- `narrative.py:148` catches every exception, the soft limit too, and the run
  goes on towards the hard limit.
- An incomplete report that was refunded still shows the narrative summary
  (`access.py:51`).

## Proofs

`AnalysesProofs` proves, from the assumptions on the constants in `Analyses`
(an owner for every upload, natural initial balances, a bound on losses, a job
value that is not an upload) and for every set of faults:

- `TypeCorrect` - `Spec => []TypeOK`. A helper `JobInv` (a busy worker has a
  job) is carried along.
- `CreditsAccounted` and `RowLocksExclusive`. `CreditAccounted` is not
  inductive: a refund adds the `credits_spent` it read, so the value must still
  be the row's when it is written (`LockInv`), which holds because nobody else
  gets the row in between (`RowLockExclusive`), and a charge must find an empty
  ledger (`RowInv`). `CreditInv` is their conjunction; `CreditStep` shows each
  action preserves it, one step per action.
- `FailedRefunded`, `PaidUnlocked`, `PartialLocked`. Inductive relative to
  `CreditInv`; `OnlyWritesChangeRows` reduces the 27 actions to the seven that
  write a row.
- `LedgerImplemented` - `Spec => ImplementsLedger`: charging is `Charge` or a
  stutter, each of the three refunds is `GiveBack` or a stutter
  (`RefundGivesBack`), a deletion is `Keep` or a stutter.

`PaymentsProofs` proves, for any number of orders, users and concurrent handlers
and from the assumptions on the constants in `Payments` (a buyer and a pack for
every order, natural balances and bounds):

- `PaymentsTyped`, `OrdersGrantOnce`, `RefundsAreFinal`, `RefundsTakeAll` and
  `CreatedOrdersAreRecorded`. The inductive invariant `PaymentsInv` adds to the
  types what the two database waits give: nobody has recorded the order a
  transaction has inserted and not committed, and a payment under a row lock is
  not refunded (`HeldInv`); one transaction at a time is in either place for an
  order (`AloneInv`); a status tells what was granted and taken (`MovedInv`).
  Without `AloneInv` two commits could grant a pack twice. `OnlyWritesChange`
  reduces the steps that touch a payment to three, and `NewAnswers` the steps
  that answer 200 to the handlers.
- `RefundsAreRecordedOneByOne` - `RefundIsRecorded` when there is one handler:
  a refund that saw no row still sees none when it inserts one (`AbsentInv`).
  This is exactly what fails in `payments_refund_race`.

Two more sets of results about `Analyses` hold for the faults the code can
answer for. Each hypothesis says which faults are left out, and the runs show that
it is needed:

- `UnfinishedOwned`, under `NothingDropped` (no hard limit, no database error, no
  API process that dies; publish errors, duplicates, lost workers and soft
  limits remain). `UnfinishedIsOwned` is not inductive: a worker that has
  raised still has its job, but the row it marks is no longer its own.
  `OwnedInv` counts a worker only until it has stored or marked.
- `NoReportIsFree`, `StatusesMoveForward`, `DeliveredReportsStayPaid`, under
  `DeliversOnce` (no ambiguous or repeated publish, no lost worker, no soft
  limit; hard limits, database errors and API crashes remain). `OnceInv` is a
  token argument: the request before its answer, its message and the worker
  that took it are never two at once, so a row is written by one of them and its
  status follows the token. `PaidInv` then says that what is shown in full, or
  may still be, is paid for. Finding 1 is what happens without the hypothesis.

`LastSeenProofs` instantiates both proof modules. Their step lemmas are stated for
`[Next]_vars` with the balances as they happen to be, so they hold although the
other service and the admin change `credits` between two steps; `Inv` is their
invariants and `FormInv` (an open form is below the bound on saves). For finite
tables of uploads and orders (`FiniteAssumption`, which the sums need) it proves:

- `LastSeenTyped` and `BalancesOwed`: each step changes a sum at one upload
  (`SpentStep`) or one order and the balance by the same amount.
- `BookImplemented` - `Spec => ImplementsBook`: uploads step as in
  `LedgerImplemented`, a commit of an order is `Grant`, `Close` or a stutter, a
  refund is `TakeBack`; `SaveForm` is the step the property exempts.
- `NoReportIsFree` and `DeliveredReportsStand` under `DeliversOnce`, and
  `RefundsAreRecorded` when webhooks are handled one at a time (`OneHandler`).

`AuthProofs` proves, for every set of addresses, passwords, identities and
concurrent requests (there is at least one address, and `NoKey` is neither a
password nor a sub):

- `AccountsTyped`: `TypeOK` needs `KeyInv` (the key of a request fits its kind)
  and that a lookup returns 0 or a position (`LookupType`, from the
  well-foundedness of the natural numbers).
- `LinkedAccountsHaveNoPassword`. `AccountsInv` adds that a row with a
  google_sub has no password (`VouchedInv`) and that an open form which shows a
  google_sub is about such a row (`FormInv`): otherwise saving a stale form could
  put a google_sub beside a password.
- `TheSameAccount` and `AnswersAsIfAlone`, from `IdentityInv`: addresses and
  google_subs are unique (`Unique`); what a request remembers of a row is still
  so after other requests' steps, because nobody changes an address
  (`RequestInv`); a google_sub comes from somebody who signs in with it at that
  address (`OwnerInv`); without forms and contest a row keeps the identity it was
  linked to (`LinkedInv`); and the answers that are still to come are already
  among those `could` has seen (`AnswerInv`). The last is the argument proper:
  a reply is decided at one await and given at a later one.

`SentimentBatchesProofs` proves, for samples, batches, pools and responses of any
size and any allowed share, `SentimentBatchesTyped`, `ThePoolIsQuiet`,
`OnlyRetriesFollow` and `TheScoresAreTrue`. A response is parsed by a fold; its
lemma is that whatever items come, each entry is the rating of its own text or
missing. `BatchInv` says what the main thread may rely on: a scored batch knows how
many ratings it lacks (`ThreadInv`), nothing runs when it judges (`PoolInv`), and
the scores collected so far are those of the texts before the awaited batch, with
as many missing as the batches counted (`CollectInv`).

`ReportsProofs` proves `PaywallAlwaysHolds` and `RunsAreReportedTrue` for every
export, every choice of days and every way an analyzer may end. A run is a straight line, and `RunInv` says what each
place of it has behind it: who pays (`PayerInv`), that a paid run has a result
for every analyzer whose turn is over (`DoneInv`), that the upload was read and the
range, if one was asked for, has left some messages (`InputInv`). The soft limit may
strike anywhere and marks the row last (`LimitKeeps`), whatever was stored or
marked before.

`AnalyzersProofs` proves every property of the `analyzers` run, from the assumptions
on the constants in the six modules: people and thresholds are finite or
natural, budgets, weeks, quarters and windows positive, dates possible, the
percentile below 100. The bounds of the run are constants too, so chats may be
as long and weeks as many as they like. The modules keep no history. Their
inductive invariant is what each algorithm is given (`Given`: an export of lines
that can occur, a chat with senders, weeks within their ranges, a scored
sample), `StepsAre` shows that a step is one of theirs or none, and the work is in
lemmas about the operators.

- `ExportReadTrue`. The loop is characterised by what it has read after *n*
  lines (`Reading`, or `Stopped` once it raised): the messages begun so far,
  each at its line and with the text up to the next one (`Placed`, `Whole`), and
  of the last one the text that waits to be joined (`Held`). `LineIsRead` is the
  step, one line of each kind on each platform; a recursive function cannot be
  unfolded by the provers before it is known to exist, which `ReadsExist` shows
  by induction on the lines. The cap is the delicate part: lines are collected
  until *their* length passes it, the message is cut with its first line
  included, and `Held` says that what waits is all the text there is or both are
  beyond the cap, so what was not collected would have been cut.
- `SampleFair`. `Apportioned` is one apportionment in general: floors, shares by
  surplus, and leftovers to the largest remainders. The integer parts leave
  no more messages than there are weeks with room (`LeftoverIs`), so the total is
  exact (`AllIsHandedOut`), and a larger week never gets less (`MoreGetMore`),
  since the remainder decides only between equal integer parts. `RoundGrows`
  makes the evenly spaced places strictly increasing, so nothing is picked twice
  and the last place is the last message (`PlacesAre`); `LongSample` carries
  this over to the sorted union of the weeks. The lemmas take the chat as a
  parameter: the ordered and the shuffled instance of `Sampling` share them.
- `BlocksFollow` and `MetricsTellOneStory`. A percentile is the least value that
  enough gaps reach (`PercentileIs`), which turns "a break is among the longest
  5%" into counting (`BreaksAreFew`). The recursion of `TurnEnd` is unfolded
  like the parser's (`TurnsAgree`), and `AnswersAreHandoffs` says that looking
  at neighbours finds the same answers as walking the turns. Weeks and days
  follow from times that grow (`TimesGrow`).
- `VerdictInTheWeeks`. Health, thirds, medians and drops as bounded integers: a
  turning point has the largest drop of those searched, so it exceeds the
  minimum; and trend and score compare the same two means.
- `EpisodesWhole`. Every day lies in a run, a run has no two quiet days in a
  row, and runs are apart (`Cut`); a sum over disjoint episodes is the sum over
  their days; of a finite order the first *n* are *n* (`FirstAreMany`), so a
  grave episode is dropped only for graver ones.
- `ToneOfBoth`. Means are fractions. One more message at the mean of its writer
  scales numerator and denominator of the difference alike (`MeanStays`), equal
  fractions round alike (`EqualsRoundAlike`), and so the shift stays
  (`VolumeKeepsShift`). A message in a quarter of which the other one knows
  nothing leaves the shared quarters and the sums in them as they were
  (`SilenceKeepsDrift`). The *k*-th of all quarters is never after the *k*-th
  of the shared ones, and is the same exactly when all before it are shared
  (`PartLagsBehind`). A shift is somebody's because deltas that were all below
  the threshold would add up to less than it (`ShiftIsSomeones`).
- `PastStandsStill`. With one more message the old gaps and openings stay
  (`NeighboursStay`, `OpeningStays`). Between silences above the ceiling every
  threshold the code may choose cuts, and within gaps below the floor none does,
  so such a conversation stays whole (`SettledStep`); for the others the threshold
  has to stay (`FinishedStep`). The waits of a week are summed over a superset
  (`NeglectAsSums`), and with more conflict days a run lies within the run that
  now holds its first day.

Proving these found four flaws of the statements, all corrected: "nothing is
lost" claimed a cut of Telegram messages, which that parser does not make;
the percentile has to be below 100, as 95 is, or the largest gap has no
place above it; a shift has a baseline only if the window is longer than
nothing; and every week is heard only if the floor per week is positive.

`FiniteSums` carries the sums and folds. The induction theorems of the prover's
library take an operator as a parameter and cannot be used; `LeastNumber` and
`SubsetInduction` state induction about sets instead, and from them follow that
a fold over a finite set is the only function of its subsets that adds one
element at a time (`FoldExists`, `FoldUnique`), what the proofs cite about sums
(`SumSame`, `SumChange`, `SumAdd`, `SumUnion`, `SumWithin`, `SumZero`,
`SumScale`, `SumAbove`, `SumCounts`), and the orders: the least and the k-th value of a function on a finite set
(`LeastOf`, `KthIs`), the first *n* elements of an order (`FirstAreMany`), and
that listing by rank lists every element once (`ListingIs`).

Only model-checked:

- Liveness: `EventuallySettled`, `PaidIsDeliveredOrRefunded`, `EventsAnswered`,
  `Ends`. Fairness and ENABLED are out of the prover's reach.
- What the violations refute is proved under the hypotheses above and false
  without them.

## Not modelled

- Routes that only read; validation before the database (one `Reject` step);
  signature checks, payload parsing and checkout URLs; tokens beyond naming
  their user; the HTTP layer.
- Guest uploads and the guest status endpoint as processes: their only state is
  a Celery result. What a guest is shown is in `Reports`.
- Rate limiting: slowapi and Redis keep the counters, the code chooses a key and
  fixed limits.
- Prompts, redaction, the narrative text, lexicons and scoring: text and
  floating-point averages over word matches; nothing a small instance could tell
  apart without the words. The logistic response-time score is an input of
  `DecayTrend`.
- The counting sections of the temporal and conflict analyzers (overview,
  activity, lengths, gap distribution, weekly rates), language detection and
  emotions.
- Configuration and migrations: no state, or run once.
