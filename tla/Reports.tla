------------------------------ MODULE Reports ------------------------------
(***************************************************************************)
(* One run of the pipeline and what its readers see: parser, date filter   *)
(* and analyzers (run_pipeline), whether the report is complete, and the   *)
(* paywall views of the owner (analysis.py) and of a guest (upload.py).    *)
(* Celery's soft limit may cut the run short at any moment.  Analyses      *)
(* models how such runs interleave; here the report has content.           *)
(***************************************************************************)
EXTENDS Naturals, Sequences, FiniteSets

CONSTANTS Exports,    \* the messages an export may hold, as <<day, sender>>
          Days        \* the days a user may choose as limits

ASSUME ExportAssumption == \A e \in Exports : \A m \in e : m[1] \in Nat
ASSUME DayAssumption == Days \subseteq Nat

Analyzers == <<"temporal", "sentiment", "conflict", "narrative">>     \* _ANALYZERS
Free == {"temporal", "conflict"}                          \* _NO_LLM_ANALYZERS
Parsers == {"whatsapp", "telegram", "imessage"}
TemporalPreview == {"overview", "response_time", "activity_patterns", "message_length"}
TemporalLocked == {"initiative_balance", "conversation_gaps", "response_decay",
                   "delayed_replies"}
NarrativeKeys == {"resumen", "dinamica", "punto_de_quiebre", "estado_actual", "reflexion"}

\* What reading an upload may come to. Without a parser: none recognises it.
\* With one: a chat with few, some or many texts (or none: an export without
\* messages); more than MAX_MESSAGES, which Telegram's does not count; or an
\* entry that parse raises on (a date, a field, a JSON of another shape), while
\* WhatsApp's skips such lines. A JSON nested too deeply raises in can_parse.
Chats == {"few", "some", "many"}
Readings(p) == CASE p = "none"     -> {"unrecognised", "malformed"}
                 [] p = "whatsapp" -> Chats \cup {"too_large"}
                 [] p = "telegram" -> Chats \cup {"malformed"}
                 [] p = "imessage" -> Chats \cup {"too_large", "malformed"}

\* No limit, or one.
Limits == {{}} \cup {{d} : d \in Days}

VARIABLES pc,         \* where the run is
          todo,       \* the analyzers that are still to come
          tier, owner,      \* preview or full; guests have no row
          keys,       \* the API keys that are set, and the local models
          parser,     \* what _select_parser finds: one of Parsers or "none"
          upload,     \* what reading the upload comes to
          export, range, people,    \* the messages, the limits, who is reported
          results,    \* what the analyzers returned so far
          calls,      \* the analyzers that called an LLM
          limit,      \* has Celery's soft limit cut the run short?
          row         \* the analysis: status, error, unlocked, refunded

run == <<tier, owner, keys, parser, upload, range>>
vars == <<pc, todo, run, export, people, results, calls, limit, row>>

Init ==
  /\ pc = "parse" /\ todo = Analyzers /\ results = <<>> /\ calls = {} /\ limit = FALSE
  /\ \/ owner = TRUE /\ tier \in {"preview", "full"}
     \/ owner = FALSE /\ tier = "preview"
  /\ keys \in SUBSET {"anthropic", "gemini", "local"}
  /\ parser \in Parsers \cup {"none"} /\ upload \in Readings(parser)
  /\ export \in {e \in Exports : e = {} => upload \notin {"some", "many"}} /\ people = {m[2] : m \in export}
  /\ range \in [from : Limits, to : Limits]
  /\ row = [status |-> "processing", error |-> "none",
            unlocked |-> tier = "full", refunded |-> FALSE]

\* Mutant: that no parser was found is an internal error.
ErrorCodeLost(e) == CASE e = "no_messages"    -> "empty_date_range"
                      [] e = "chat_too_large" -> "chat_too_large"
                      [] OTHER                -> "internal_error"

\* _error_code: three exceptions have a code of their own.
ErrorCode(e) == CASE e = "no_parser"      -> "parse_failed"
                  [] e = "no_messages"    -> "empty_date_range"
                  [] e = "chat_too_large" -> "chat_too_large"
                  [] OTHER                -> "internal_error"

\* _mark_failed: status, error and refund in one commit; guests have no row.
MarkFailed(code) ==
  row' = IF owner THEN [row EXCEPT !.status = "failed", !.error = code,
                                   !.refunded = tier = "full"]
         ELSE row

Fail(e) == /\ pc' = "failed"
           /\ MarkFailed(ErrorCode(e))
           /\ UNCHANGED <<todo, run, export, people, results, calls, limit>>

\* _select_parser and parse, and the exceptions they may raise.
Parse ==
  /\ pc = "parse"
  /\ \/ upload = "unrecognised" /\ Fail("no_parser")
     \/ upload = "too_large"    /\ Fail("chat_too_large")
     \/ upload = "malformed"    /\ Fail("unexpected")
     \/ /\ upload \in Chats
        /\ pc' = "filter"
        /\ UNCHANGED <<todo, run, export, people, results, calls, limit, row>>

Unlimited == range.from = {} /\ range.to = {}
InRange(d) == (\A f \in range.from : d >= f) /\ (\A t \in range.to : d <= t)

\* Mutant: people who only spoke outside the range linger.
PeopleOfAll(kept) == people

PeopleOf(kept) == {m[2] : m \in kept}

\* _filter_by_date: the chat as it is when both limits are open, be it empty.
Filter ==
  /\ pc = "filter"
  /\ LET kept == {m \in export : InRange(m[1])}
     IN \/ ~Unlimited /\ kept = {} /\ Fail("no_messages")
        \/ /\ Unlimited \/ kept # {}
           /\ pc' = "analyze" /\ export' = kept /\ people' = PeopleOf(kept)
           /\ UNCHANGED <<todo, run, results, calls, limit, row>>

\* What an analyzer may return, and whether it called an LLM on the way.
Error(e) == [error |-> e]
Works(s) == [error |-> "none", shows |-> s]
Temporal == {<<Error("insufficient_data"), FALSE>>}
            \cup {<<Works(c), FALSE>> :
                     c \in {d \in {"no_baseline", "steady", "closing"} : export # {}}}
Local == IF "local" \in keys THEN Works("tone") ELSE Error("sentiment_unavailable")
Sentiment == IF upload = "few" THEN {<<Error("insufficient_data"), FALSE>>}
             ELSE IF "gemini" \in keys THEN {<<Works("tone"), TRUE>>, <<Local, TRUE>>}
             ELSE {<<Local, FALSE>>}
Conflict == IF upload = "many" THEN {<<Works("episodes"), FALSE>>}
            ELSE {<<Error("insufficient_data"), FALSE>>}
Narrative == IF keys \cap {"anthropic", "gemini"} = {}
             THEN {<<Error("not_configured"), FALSE>>}
             ELSE {<<Works("text"), TRUE>>, <<Error("llm_failed"), TRUE>>}
Outcomes(a) == CASE a = "temporal" -> Temporal   [] a = "sentiment" -> Sentiment
                 [] a = "conflict" -> Conflict   [] a = "narrative" -> Narrative

\* Mutant: a preview runs everything.
SkippedNever(a) == FALSE

Skipped(a) == tier = "preview" /\ a \notin Free
Analyze ==
  /\ pc = "analyze" /\ todo # <<>>
  /\ \/ /\ Skipped(Head(todo))
        /\ UNCHANGED <<results, calls>>
     \/ /\ ~Skipped(Head(todo))
        /\ \E o \in Outcomes(Head(todo)) :
             /\ results' = Append(results, [analyzer |-> Head(todo), data |-> o[1]])
             /\ calls' = IF o[2] THEN calls \cup {Head(todo)} ELSE calls
  /\ todo' = Tail(todo)
  /\ UNCHANGED <<pc, run, export, people, limit, row>>

\* An analyzer that raises after all fails the run.
Raise == /\ pc = "analyze" /\ todo # <<>> /\ ~Skipped(Head(todo))
         /\ Fail("unexpected")

\* Mutant: a sentiment that falls back counts, a narrative that failed does not.
IsIncompleteWithoutNarrative ==
  tier = "full" /\ \E k \in DOMAIN results :
    results[k].analyzer = "sentiment" /\ results[k].data.error # "none"

\* _is_incomplete: an analyzer the credit pays for reported an error.
IsIncomplete ==
  tier = "full" /\ \E k \in DOMAIN results :
    results[k].analyzer \notin Free /\ results[k].data.error # "none"

\* _save_result: an incomplete report is refunded and locked again.
Save == /\ pc = "analyze" /\ todo = <<>> /\ pc' = "done"
        /\ row' = IF owner
                  THEN [row EXCEPT !.status = "completed", !.refunded = IsIncomplete,
                                   !.unlocked = @ /\ ~IsIncomplete]
                  ELSE row
        /\ UNCHANGED <<todo, run, export, people, results, calls, limit>>

\* Mutant: process_chat_upload leaves the row as run_pipeline marked it.
SoftLimitMarkedOnce == /\ ~limit /\ limit' = TRUE
                       /\ pc' = "failed"
                       /\ MarkFailed(ErrorCode("soft_limit"))
                       /\ UNCHANGED <<todo, run, export, people, results, calls>>

\* SoftTimeLimitExceeded, wherever the task is: run_pipeline marks the row (or has
\* stored or marked it before) and raises, and process_chat_upload marks it again.
\* A narrative that swallows the exception is the outcome "llm_failed".
SoftLimit == /\ ~limit /\ limit' = TRUE
             /\ pc' = "failed"
             /\ MarkFailed("timeout")
             /\ UNCHANGED <<todo, run, export, people, results, calls>>

Next == Parse \/ Filter \/ Analyze \/ Raise \/ Save \/ SoftLimit
Spec == Init /\ [][Next]_vars

---------------------------------------------------------------------------
(* The views *)

Has(a) == \E k \in DOMAIN results : results[k].analyzer = a
Data(a) == results[CHOOSE k \in DOMAIN results : results[k].analyzer = a].data
Worked(a) == Has(a) /\ Data(a).error = "none"

\* The sections of a report, as <<analyzer, key>>.
Sections(a) == CASE ~Has(a) -> {}
                 [] Has(a) /\ Data(a).error # "none" -> {<<a, "error">>}
                 [] Worked(a) -> CASE a = "temporal" -> {a} \X (TemporalPreview \cup TemporalLocked)
                                   [] a = "narrative" -> {a} \X NarrativeKeys
                                   [] OTHER -> {<<a, "data">>}
Report == UNION {Sections(Analyzers[k]) : k \in DOMAIN Analyzers}

\* Mutant: conflicts are not hidden.
PreviewWithConflict == {s \in Report : s[1] # "sentiment"}

\* build_preview
Preview == {s \in Report : \/ s[1] = "temporal" /\ s[2] \in TemporalPreview \cup {"error"}
                           \/ s[1] = "narrative" /\ s[2] \in {"resumen", "error"}}

\* _detail for the owner, _guest_result for a guest.
Shown == IF owner /\ row.unlocked THEN Report ELSE Preview

\* build_teaser: an empty closing_phase is false, a dict that says
\* "detected": False is not.
TeaserClosing == Worked("temporal")

---------------------------------------------------------------------------
(* Properties *)

\* "sentiment and narrative call an LLM ... and cost money per run"
\* (pipeline.py:34-36): a run that nobody paid for never calls one.
FreeRunsCallNoLLM == calls # {} => owner /\ tier = "full"

\* Whoever still has the full report got what the credit pays for: both the
\* tone and the narrative are there; else it is refunded and locked.
PaidReportIsWhole ==
  pc = "done" /\ tier = "full" =>
    /\ row.unlocked => \A a \in {"sentiment", "narrative"} : Worked(a)
    /\ row.unlocked # row.refunded

\* A failed run carries the error that happened to it, although up to two
\* handlers mark its row: "timeout" whenever the soft limit struck, also after
\* another failure; else the code of what is wrong with the upload or its dates
\* exactly when that is wrong. So "internal_error" is left to malformed uploads
\* that a parser recognised and to analyzers that raised.
FailureIsExplained ==
  pc = "failed" /\ owner =>
    /\ row.error = "timeout" <=> limit
    /\ ~limit =>
         /\ row.error = "parse_failed" <=> upload = "unrecognised"
         /\ row.error = "chat_too_large" <=> upload = "too_large"
         /\ row.error = "empty_date_range" <=>
              upload \in Chats /\ ~Unlimited /\ \A m \in export : ~InRange(m[1])

\* "so people who only spoke outside the range don't linger" (pipeline.py:71):
\* whoever is reported as a participant has a message in the report.
ParticipantsSpoke == pc = "done" => people = {m[2] : m \in export}

\* What is not unlocked shows none of the sections that are sold, apart from
\* the summary that stays in the preview.
LockedIsHidden ==
  pc = "done" /\ ~(owner /\ row.unlocked) =>
    Shown \cap ({"sentiment", "conflict"} \X {"data"} \cup {"temporal"} \X TemporalLocked
                \cup {"narrative"} \X (NarrativeKeys \ {"resumen"})) = {}

\* The paywall: nobody gets for free what costs money or is sold.
PaywallHolds == FreeRunsCallNoLLM /\ PaidReportIsWhole /\ LockedIsHidden

\* What the user is told of a run is what happened in it.
RunIsReportedTrue == FailureIsExplained /\ ParticipantsSpoke

\* The flag closing_phase_detected of the lock screen is a fact (access.py:59).
TeaserIsAFact ==
  pc = "done" => (TeaserClosing <=> Worked("temporal") /\ Data("temporal").shows = "closing")
=============================================================================
